---- MODULE Spec2Model ----
(***************************************************************************)
(* Pong Madness: the simulation core (chaos parameter engine, ball,        *)
(* paddles, game loop and multiball timers) as a state machine.            *)
(*                                                                         *)
(* Numbers.  JavaScript numbers are modelled in fixed point: a length, a   *)
(* speed or a chaos parameter value v is the integer v * Fx (Fx = 100), a  *)
(* product or quotient is truncated toward zero.  Times are integer        *)
(* milliseconds.  Math.random() is k / RandDen for k in RandUnits.         *)
(***************************************************************************)
EXTENDS Integers, Sequences, FiniteSets, TLC

VARIABLES
    chaos,        \* the ChaosController object
    clog,         \* history of the chaos engine's calls (observation only)
    game,         \* the Game object's own fields
    balls,        \* Game.balls
    paddleLeft,   \* Game.paddleLeft
    paddleRight,  \* Game.paddleRight
    keys,         \* Game.keys
    timers,       \* the live setInterval timers, by timer id
    now,          \* the timestamp of the latest animation frame, in ms
    clock,        \* the time of the latest event (frame or timer), in ms
    glog          \* history of the game's latest handler (observation only)

vars == <<chaos, clog, game, balls, paddleLeft, paddleRight, keys, timers, now,
          clock, glog>>

gameVars == <<game, balls, paddleLeft, paddleRight, keys, timers, now, clock, glog>>

----------------------------------------------------------------------------
(* Arithmetic helpers *)

Fx == 10 * 10

Abs(a) == IF a < 0 THEN -a ELSE a

Max2(a, b) == IF a >= b THEN a ELSE b

Min2(a, b) == IF a <= b THEN a ELSE b

\* Quotient truncated toward zero (b > 0).
TruncDiv(a, b) == IF a >= 0 THEN a \div b ELSE -((-a) \div b)

\* Math.random() takes the values k / RandDen, k \in RandUnits.
RandDen == 2 * 2 * 2

RandUnits == {0, 7}

\* lo + Math.random() * span
RandIn(lo, span, k) == lo + TruncDiv(span * k, RandDen)

\* The value JavaScript leaves in a field that was never assigned.
Undefined == 0 - 1

----------------------------------------------------------------------------
(* Game.defaultParams and the ChaosController's tables *)

defaultParams ==
    [ ballSpeed    |-> 35 * 10,
      ballSize     |-> 10 * Fx,
      paddleSize   |-> 100 * Fx,
      paddleWidth  |-> 15 * Fx,
      paddleSpeed  |-> 8 * Fx,
      fieldWidth   |-> 90,
      fieldHeight  |-> 90,
      ballGravityX |-> 0,
      ballGravityY |-> 0,
      multiball    |-> FALSE,
      invertControls |-> FALSE,
      trailEffect  |-> TRUE,
      screenShake  |-> TRUE,
      ballColor    |-> 255 * 65536 + 255,
      paddleColor  |-> 255 * 256 + 255,
      backgroundColor  |-> 10 * 65536 + 10 * 256 + 18,
      fieldBorderColor |-> 28 * 65536 + 28 * 256 + 53 ]

\* The min and max columns of the chaosParams table.
ParamMin ==
    [ ballSpeed |-> 2 * Fx, ballSize |-> 5 * Fx, paddleSize |-> 60 * Fx,
      paddleWidth |-> 10 * Fx, paddleSpeed |-> 5 * Fx, ballGravityX |-> -2,
      ballGravityY |-> -10, fieldWidth |-> 70, fieldHeight |-> 70,
      multiball |-> 0 ]

ParamMax ==
    [ ballSpeed |-> 7 * Fx, ballSize |-> 15 * Fx, paddleSize |-> 130 * Fx,
      paddleWidth |-> 25 * Fx, paddleSpeed |-> 12 * Fx, ballGravityX |-> 2,
      ballGravityY |-> 10, fieldWidth |-> 95, fieldHeight |-> 95,
      multiball |-> Fx ]

IsBoolean(name) == name = "multiball"

chaosStartDelay == 10000

----------------------------------------------------------------------------
(* utils.js: colors.  A hex color string "#rrggbb" is the integer          *)
(* 65536 r + 256 g + b; hexToRgb and rgbToHex convert between the two.     *)

hexToRgb(hex) ==
    [ r |-> hex \div 65536, g |-> (hex \div 256) % 256, b |-> hex % 256 ]

\* Math.floor of each channel, then packed into six hex digits.
rgbToHex(r, g, b) == r * 65536 + g * 256 + b

\* Math.floor(cur + (tgt - cur) * 0.02) for one channel: 0.02 = 1 / 50.
BlendChannel(cur, tgt) == cur + ((tgt - cur) \div 50)

transitionColor(currentColor, targetColor) ==
    LET c == hexToRgb(currentColor)
        t == hexToRgb(targetColor)
    IN  rgbToHex(BlendChannel(c.r, t.r), BlendChannel(c.g, t.g),
                 BlendChannel(c.b, t.b))

\* colorParams[..].getRandomColor: Math.floor(Math.random() * range)
ColorRange(name) ==
    IF name = "backgroundColor" THEN 4210752 ELSE 16777215

getRandomColor(name, k) == (ColorRange(name) * k) \div RandDen

----------------------------------------------------------------------------
(* chaos.js: ChaosController *)

\* constructor(defaultParams), for the parameters and colors a
\* specification follows.
NewChaosController(pnames, cnames) ==
    [ gameParams   |-> [n \in pnames \cup cnames \cup {"invertControls"}
                            |-> defaultParams[n]],
      targetParams |-> [n \in cnames |-> defaultParams[n]],
      chaosParams  |-> [n \in pnames |->
                          [ current |-> IF IsBoolean(n)
                                          THEN (IF defaultParams[n] THEN Fx ELSE 0)
                                          ELSE defaultParams[n],
                            target  |-> IF IsBoolean(n)
                                          THEN (IF defaultParams[n] THEN Fx ELSE 0)
                                          ELSE defaultParams[n],
                            nextChange |-> 0,
                            transitionDuration |-> 0,
                            transitionStart |-> Undefined ]],
      colorParams  |-> [n \in cnames |->
                          [ current |-> defaultParams[n], nextChange |-> 0 ]],
      startTime    |-> 0,
      invertControlsNextChange |-> 0 ]

\* updateParameters without the fixed 5000 ms of the next change time.
RerollParamNoBase(p, name, ts, rnd) ==
    IF ts >= p.nextChange
      THEN [ p EXCEPT
               !.target = RandIn(ParamMin[name],
                                 ParamMax[name] - ParamMin[name], rnd.target[name]),
               !.nextChange = ts + RandIn(0, 5000, rnd.next),
               !.transitionDuration = 2000 + RandIn(0, 1000, rnd.dur),
               !.transitionStart = ts ]
      ELSE p

\* updateParameters, first half: re-roll target and schedule when due.
RerollParam(p, name, ts, rnd) ==
    IF ts >= p.nextChange
      THEN [ p EXCEPT
               !.target = RandIn(ParamMin[name],
                                 ParamMax[name] - ParamMin[name], rnd.target[name]),
               !.nextChange = ts + 5000 + RandIn(0, 5000, rnd.next),
               !.transitionDuration = 2000 + RandIn(0, 1000, rnd.dur),
               !.transitionStart = ts ]
      ELSE p

\* The step without the cap and without the division by the duration.
TransitionDeltaUncapped(p, ts) ==
    TruncDiv((p.target - p.current) * (ts - p.transitionStart), 100)

\* (target - current) * Math.min(progress, 0.1),
\* progress = (ts - transitionStart) / transitionDuration
TransitionDelta(p, ts) ==
    IF 10 * (ts - p.transitionStart) >= p.transitionDuration
      THEN TruncDiv(p.target - p.current, 10)
      ELSE TruncDiv((p.target - p.current) * (ts - p.transitionStart),
                    p.transitionDuration)

\* The transition applied on every call, inside the window or not.
TransitionParamNoWindow(p, ts) ==
    IF p.transitionStart # Undefined
      THEN [ p EXCEPT !.current = p.current + TransitionDelta(p, ts) ]
      ELSE p

\* updateParameters, second half: the smooth transition.  A comparison with
\* an undefined transitionStart (NaN) is false.
TransitionParam(p, ts) ==
    IF p.transitionStart # Undefined
       /\ ts < p.transitionStart + p.transitionDuration
      THEN [ p EXCEPT !.current = p.current + TransitionDelta(p, ts) ]
      ELSE p

UpdateParam(p, name, ts, rnd) == TransitionParam(RerollParam(p, name, ts, rnd), ts)

\* The value written to gameParams[param.name].
SnapshotValue(p, name) ==
    IF IsBoolean(name) THEN 2 * p.current > Fx ELSE p.current

updateParameters(c, ts, rnd) ==
    LET ps == [n \in DOMAIN c.chaosParams |->
                   UpdateParam(c.chaosParams[n], n, ts, rnd)]
    IN  [ c EXCEPT
            !.chaosParams = ps,
            !.gameParams = [n \in DOMAIN c.gameParams |->
                              IF n \in DOMAIN ps THEN SnapshotValue(ps[n], n)
                              ELSE c.gameParams[n]] ]

updateColors(c, ts, rnd) ==
    LET due(n) == ts >= c.colorParams[n].nextChange
        tgt == [n \in DOMAIN c.targetParams |->
                   IF due(n) THEN getRandomColor(n, rnd.color[n])
                   ELSE c.targetParams[n]]
    IN  [ c EXCEPT
            !.colorParams = [n \in DOMAIN c.colorParams |->
                IF due(n)
                  THEN [ c.colorParams[n] EXCEPT
                           !.nextChange = ts + 2000 + RandIn(0, 6000, rnd.next) ]
                  ELSE c.colorParams[n]],
            !.targetParams = tgt,
            !.gameParams = [n \in DOMAIN c.gameParams |->
                              IF n \in DOMAIN tgt
                                THEN transitionColor(c.gameParams[n], tgt[n])
                                ELSE c.gameParams[n]] ]

\* Math.random() < 0.15
CoinInvert(k) == 100 * k < 15 * RandDen

\* The coin flipped on every call, whatever the schedule says.
updateInvertedControlsEveryCall(c, ts, rnd) ==
    [ c EXCEPT
        !.gameParams = [ c.gameParams EXCEPT
                           !["invertControls"] = CoinInvert(rnd.coin) ],
        !.invertControlsNextChange = ts + 10000 + RandIn(0, 10000, rnd.next) ]

updateInvertedControls(c, ts, rnd) ==
    IF ts >= c.invertControlsNextChange
      THEN [ c EXCEPT
               !.gameParams = [ c.gameParams EXCEPT
                                  !["invertControls"] = CoinInvert(rnd.coin) ],
               !.invertControlsNextChange =
                   ts + 10000 + RandIn(0, 10000, rnd.next) ]
      ELSE c

\* update(timestamp, active): the controller afterwards; the value returned
\* is its gameParams.
ChaosStamp(c, ts) == IF c.startTime = 0 THEN [ c EXCEPT !.startTime = ts ] ELSE c

\* A start delay of 5 seconds instead of 10.
ChaosGatedFiveSeconds(c, ts) == ts - c.startTime < 5000

ChaosGated(c, ts) == ts - c.startTime < chaosStartDelay

ChaosUpdate(c, ts, active, rnd) ==
    IF ~active THEN c
    ELSE LET c1 == ChaosStamp(c, ts)
         IN  IF ChaosGated(c1, ts) THEN c1
             ELSE updateInvertedControls(
                      updateColors(updateParameters(c1, ts, rnd), ts, rnd),
                      ts, rnd)

\* reset() without `this.startTime = 0`.
ChaosResetKeepsStart(c) ==
    [ c EXCEPT
        !.gameParams = [n \in DOMAIN c.gameParams |-> defaultParams[n]],
        !.targetParams = [n \in DOMAIN c.targetParams |-> defaultParams[n]],
        !.invertControlsNextChange = 0,
        !.chaosParams = [n \in DOMAIN c.chaosParams |->
            [ c.chaosParams[n] EXCEPT
                !.current = IF IsBoolean(n)
                              THEN (IF defaultParams[n] THEN Fx ELSE 0)
                              ELSE defaultParams[n],
                !.target = IF IsBoolean(n)
                              THEN (IF defaultParams[n] THEN Fx ELSE 0)
                              ELSE defaultParams[n],
                !.nextChange = 0 ]],
        !.colorParams = [n \in DOMAIN c.colorParams |->
            [ current |-> defaultParams[n], nextChange |-> 0 ]] ]

\* reset(): `defaultParams[name] || 0` is 0 for false and for 0.
ChaosReset(c) ==
    [ c EXCEPT
        !.gameParams = [n \in DOMAIN c.gameParams |-> defaultParams[n]],
        !.targetParams = [n \in DOMAIN c.targetParams |-> defaultParams[n]],
        !.startTime = 0,
        !.invertControlsNextChange = 0,
        !.chaosParams = [n \in DOMAIN c.chaosParams |->
            [ c.chaosParams[n] EXCEPT
                !.current = IF IsBoolean(n)
                              THEN (IF defaultParams[n] THEN Fx ELSE 0)
                              ELSE defaultParams[n],
                !.target = IF IsBoolean(n)
                              THEN (IF defaultParams[n] THEN Fx ELSE 0)
                              ELSE defaultParams[n],
                !.nextChange = 0 ]],
        !.colorParams = [n \in DOMAIN c.colorParams |->
            [ current |-> defaultParams[n], nextChange |-> 0 ]] ]

\* The random draws of one update call.  Each re-rolled parameter and color
\* draws its own target; the schedule draws of one call (next change time,
\* transition duration) are taken equal across its parameters, and a draw
\* the call does not read is fixed at 0.
ParamDue(c, ts) == { n \in DOMAIN c.chaosParams : ts >= c.chaosParams[n].nextChange }

ColorDue(c, ts) == { n \in DOMAIN c.colorParams : ts >= c.colorParams[n].nextChange }

InvertDue(c, ts) == ts >= c.invertControlsNextChange

\* The values a draw ranges over: those of `units` when the call makes the
\* draw, and a placeholder when it does not.
Pick(units, used) == IF used THEN units ELSE {0}

Units(used) == Pick(RandUnits, used)

\* All functions f on dom with f[n] \in Pick(units, n \in due).
RECURSIVE PickAll(_, _, _, _)
PickAll(dom, due, units, acc) ==
    IF dom = {} THEN acc
    ELSE LET n == CHOOSE x \in dom : TRUE
         IN  PickAll(dom \ {n}, due, units,
                     { [m \in DOMAIN f \cup {n} |-> IF m = n THEN v ELSE f[m]] :
                         f \in acc, v \in Pick(units, n \in due) })

\* The draws one update call can make, from the units U = [target, color,
\* next, dur, coin] a specification explores.
ChaosDraws(c, ts, U) ==
    LET gated == ChaosGated(ChaosStamp(c, ts), ts)
        pd == IF gated THEN {} ELSE ParamDue(c, ts)
        cd == IF gated THEN {} ELSE ColorDue(c, ts)
        id == ~gated /\ InvertDue(c, ts)
    IN  [ target : PickAll(DOMAIN c.chaosParams, pd, U.target, { << >> }),
          color  : PickAll(DOMAIN c.colorParams, cd, U.color, { << >> }),
          next   : Pick(U.next, pd # {} \/ cd # {} \/ id),
          dur    : Pick(U.dur, pd # {}),
          coin   : Pick(U.coin, id) ]

----------------------------------------------------------------------------
(* utils.js: getFieldOffset.  canvas = [width, height]; the field ratios   *)
(* are in hundredths.                                                      *)

getFieldOffset(canvas, params) ==
    LET fieldWidth  == TruncDiv(canvas.width * params.fieldWidth, 100)
        fieldHeight == TruncDiv(canvas.height * params.fieldHeight, 100)
    IN  [ x |-> TruncDiv(canvas.width - fieldWidth, 2),
          y |-> TruncDiv(canvas.height - fieldHeight, 2),
          width |-> fieldWidth,
          height |-> fieldHeight ]

----------------------------------------------------------------------------
(* Ball (src/unnamed/part_000) *)

\* Math.cos and Math.sin in thousandths, for the angles the random draws
\* below can produce (degrees).
CosSin(deg) ==
    CASE deg = -36 -> [ cos |->  809, sin |-> -588 ]
      [] deg = -27 -> [ cos |->  891, sin |-> -454 ]
      [] deg = -18 -> [ cos |->  951, sin |-> -309 ]
      [] deg = -9  -> [ cos |->  988, sin |-> -156 ]
      [] deg = 0   -> [ cos |-> 1000, sin |->    0 ]
      [] deg = 9   -> [ cos |->  988, sin |->  156 ]
      [] deg = 18  -> [ cos |->  951, sin |->  309 ]
      [] deg = 27  -> [ cos |->  891, sin |->  454 ]
      [] deg = 45  -> [ cos |->  707, sin |->  707 ]
      [] deg = 90  -> [ cos |->    0, sin |-> 1000 ]
      [] deg = 135 -> [ cos |-> -707, sin |->  707 ]
      [] deg = 180 -> [ cos |-> -1000, sin |->   0 ]
      [] deg = 225 -> [ cos |-> -707, sin |-> -707 ]
      [] deg = 270 -> [ cos |->    0, sin |-> -1000 ]
      [] deg = 315 -> [ cos |->  707, sin |-> -707 ]

\* A reset that draws its angle over the full circle.
ResetAngleFullCircle(k) == TruncDiv(360 * k, RandDen)

\* reset(): angle = Math.random() * PI / 2.5 - PI / 5, in degrees
ResetAngle(k) == TruncDiv(72 * k, RandDen) - 36

\* Math.random() < 0.5 ? 1 : -1
ResetDirection(k) == IF 2 * k < RandDen THEN 1 ELSE -1

ResetDx(speed, angle, direction) ==
    LET dx == TruncDiv(CosSin(angle).cos * speed, 1000) * direction
    IN  IF Abs(dx) < 1 * Fx THEN direction * Fx ELSE dx

\* reset(): center of the field, random direction with a horizontal bias.
BallReset(b, canvas, params, rnd) ==
    LET field == getFieldOffset(canvas, params)
        angle == ResetAngle(rnd.angle)
        direction == ResetDirection(rnd.dir)
        minSpeed == Max2(2 * Fx, TruncDiv(params.ballSpeed * 8, 10))
        speed == RandIn(minSpeed, params.ballSpeed - minSpeed, rnd.speed)
    IN  [ b EXCEPT
            !.x = field.x + TruncDiv(field.width, 2),
            !.y = field.y + TruncDiv(field.height, 2),
            !.dx = ResetDx(speed, angle, direction),
            !.dy = TruncDiv(CosSin(angle).sin * speed, 1000) ]

BallFields(params) ==
    [ id |-> 0,    \* which Ball object this is (observation only)
      x |-> 0, y |-> 0, dx |-> 0, dy |-> 0,
      size |-> params.ballSize,
      needsRemoval |-> FALSE,
      lastScoreTime |-> 0,
      shouldRespawn |-> TRUE,
      trail |-> << >> ]

\* new Ball(canvas, ctx, gameParams, updateScore, {}, soundManager)
NewBall(canvas, params, rnd) == BallReset(BallFields(params), canvas, params, rnd)

\* new Ball(..., {x, y, dx, dy}, ...): `options.x || canvas.width / 2`
NewBallAt(canvas, params, x, y, dx, dy) ==
    [ BallFields(params) EXCEPT
        !.x = IF x # 0 THEN x ELSE TruncDiv(canvas.width, 2),
        !.y = IF y # 0 THEN y ELSE TruncDiv(canvas.height, 2),
        !.dx = dx,
        !.dy = dy ]

maxTrailLength == 10

resetDelay == 500

WallTop(b, field, r) ==
    IF b.y - r < field.y
      THEN [ b EXCEPT !.y = field.y + r, !.dy = Abs(b.dy) ]
      ELSE b

\* A bottom-wall handling that turns the ball round where it is, with no
\* correction of its position.
WallBottomInPlace(b, field, r) ==
    IF b.y + r > field.y + field.height
      THEN [ b EXCEPT !.dy = -Abs(b.dy) ]
      ELSE b

WallBottom(b, field, r) ==
    IF b.y + r > field.y + field.height
      THEN [ b EXCEPT !.y = field.y + field.height - r, !.dy = -Abs(b.dy) ]
      ELSE b

\* handleWallCollision(field, ballSize): [ball, collided]
handleWallCollision(b, field, r) ==
    LET b1 == WallTop(b, field, r)
        b2 == WallBottom(b1, field, r)
    IN  [ ball |-> b2,
          collided |-> (b.y - r < field.y) \/ (b1.y + r > field.y + field.height) ]

PaddleOverlaps(b, paddle, r) ==
    /\ b.x + r >= paddle.x
    /\ b.x - r <= paddle.x + paddle.width
    /\ b.y + r >= paddle.y
    /\ b.y - r <= paddle.y + paddle.height

\* Every successful collision: dx and dy times 1.1
SpeedUp(v) == TruncDiv(v * 11, 10)

\* The horizontal branch: flip dx, reposition, dy from the hit position,
\* minimum horizontal speed 2.
BounceHorizontal(b, paddle, r, fromLeft) ==
    LET dx1 == -b.dx
        \* (hitPosition - 0.5) * 2 * |dx|, hitPosition = (y - paddle.y) / height
        dy1 == TruncDiv((2 * (b.y - paddle.y) - paddle.height) * Abs(dx1),
                        paddle.height)
        dx2 == IF Abs(dx1) < 2 * Fx
                 THEN (IF dx1 > 0 THEN 2 * Fx ELSE -(2 * Fx))
                 ELSE dx1
    IN  [ b EXCEPT
            !.x = IF fromLeft THEN paddle.x - r ELSE paddle.x + paddle.width + r,
            !.dx = dx2,
            !.dy = dy1 ]

BounceVertical(b, paddle, r, fromTop) ==
    [ b EXCEPT
        !.dy = -b.dy,
        !.y = IF fromTop THEN paddle.y - r ELSE paddle.y + paddle.height + r ]

\* handlePaddleCollision(paddle, ballSize): [ball, collided]
handlePaddleCollision(b, paddle, r) ==
    IF PaddleOverlaps(b, paddle, r)
      THEN LET overlapLeft   == (b.x + r) - paddle.x
               overlapRight  == (paddle.x + paddle.width) - (b.x - r)
               overlapTop    == (b.y + r) - paddle.y
               overlapBottom == (paddle.y + paddle.height) - (b.y - r)
               minOverlap == Min2(Min2(overlapLeft, overlapRight),
                                  Min2(overlapTop, overlapBottom))
               b1 == IF minOverlap = overlapLeft \/ minOverlap = overlapRight
                       THEN BounceHorizontal(b, paddle, r, minOverlap = overlapLeft)
                       ELSE BounceVertical(b, paddle, r, minOverlap = overlapTop)
           IN  [ ball |-> [ b1 EXCEPT !.dx = SpeedUp(b1.dx), !.dy = SpeedUp(b1.dy) ],
                 collided |-> TRUE ]
      ELSE [ ball |-> b, collided |-> FALSE ]

\* The reset delay with its last instant included.
InResetDelayInclusive(b, ts) ==
    b.lastScoreTime > 0 /\ ts - b.lastScoreTime <= resetDelay

\* update(): is the call still inside the reset delay after a score?
InResetDelay(b, ts) ==
    b.lastScoreTime > 0 /\ ts - b.lastScoreTime < resetDelay

PushTrail(b, params) ==
    IF params.trailEffect
      THEN LET t == Append(b.trail, [ x |-> b.x, y |-> b.y, size |-> b.size ])
           IN  IF Len(t) > maxTrailLength THEN Tail(t) ELSE t
      ELSE << >>

\* The ball's center, not the whole ball, past the left boundary.
OutLeftCenter(b, field, r) == b.x < field.x

\* The right-exit test that also accepts a ball past the left boundary.
OutRightEitherSide(b, field, r) ==
    b.x + r < field.x \/ b.x - r > field.x + field.width

\* Is the whole ball past the left / right boundary?
OutLeft(b, field, r) == b.x + r < field.x

OutRight(b, field, r) == b.x - r > field.x + field.width

\* A scoring block that does nothing at all without a score callback.
ScoreBlockNeedsCallback(u, out, side, ts, canvas, params, rnd, hasScoreCb) ==
    IF ~out \/ ~hasScoreCb THEN u
    ELSE [ u EXCEPT
             !.scored = Append(u.scored, side),
             !.resets = IF u.ball.shouldRespawn THEN u.resets + 1 ELSE u.resets,
             !.ball = IF u.ball.shouldRespawn
                        THEN BallReset([ u.ball EXCEPT !.lastScoreTime = ts ],
                                       canvas, params, rnd)
                        ELSE [ u.ball EXCEPT !.needsRemoval = TRUE ] ]

\* One of the two scoring blocks of update(): the score callback for `side`
\* (when there is one), then reset with the delay, or the removal mark.
\* u = [ball, scored, resets]; scored lists the callback's invocations.
ScoreBlock(u, out, side, ts, canvas, params, rnd, hasScoreCb) ==
    IF ~out THEN u
    ELSE [ u EXCEPT
             !.scored = IF hasScoreCb THEN Append(u.scored, side) ELSE u.scored,
             !.resets = IF u.ball.shouldRespawn THEN u.resets + 1 ELSE u.resets,
             !.ball = IF u.ball.shouldRespawn
                        THEN BallReset([ u.ball EXCEPT !.lastScoreTime = ts ],
                                       canvas, params, rnd)
                        ELSE [ u.ball EXCEPT !.needsRemoval = TRUE ] ]

\* update(), lines 197-222: the delay is over; the trail, gravity, the move.
MoveBall(b, params) ==
    [ b EXCEPT !.lastScoreTime = 0,
               !.trail = PushTrail(b, params),
               !.dx = @ + params.ballGravityX,
               !.dy = @ + params.ballGravityY,
               !.x = @ + b.dx + params.ballGravityX,
               !.y = @ + b.dy + params.ballGravityY ]

\* update(), lines 231-235: the left paddle is tried when the ball moves left.
CollideLeft(w, padLeft, r) ==
    IF w.ball.dx < 0
      THEN handlePaddleCollision(w.ball, padLeft, r)
      ELSE [ ball |-> w.ball, collided |-> FALSE ]

\* update(), lines 237-241: the right paddle, when the ball now moves right.
CollideRight(pl, padRight, r) ==
    IF pl.ball.dx > 0
      THEN handlePaddleCollision(pl.ball, padRight, r)
      ELSE [ ball |-> pl.ball, collided |-> FALSE ]

\* update(), lines 260-272: the left exit.
ScoreLeftExit(u, field, r, ts, canvas, params, rnd, hasScoreCb) ==
    ScoreBlock(u, OutLeft(u.ball, field, r), "right", ts, canvas, params, rnd,
               hasScoreCb)

\* update(), lines 275-287: the right exit, tested on the ball as the left
\* block left it.
ScoreRightExit(u, field, r, ts, canvas, params, rnd, hasScoreCb) ==
    ScoreBlock(u, OutRight(u.ball, field, r), "left", ts, canvas, params, rnd,
               hasScoreCb)

\* update(), lines 244-289: the hit effects and the value returned; w, pl,
\* pr are the outcomes of the wall and paddle handling, u of the scoring
\* blocks.
BallOutcome(w, pl, pr, u, shakeAmount, cb, params, rnd) ==
    [ ball |-> u.ball,
      shake |-> shakeAmount + (IF w.collided THEN 1 * Fx ELSE 0)
                            + (IF pl.collided \/ pr.collided THEN 3 * Fx ELSE 0),
      skipped |-> FALSE,
      wall |-> w.collided,
      moved |-> w.moved,
      entry |-> w.ball,
      hitLeft |-> pl.collided,
      hitRight |-> pr.collided,
      sounds |-> IF (pl.collided \/ pr.collided) /\ cb.sound THEN 1 ELSE 0,
      spawn |-> /\ (pl.collided \/ pr.collided)
                /\ cb.multiball
                /\ params.multiball
                /\ 100 * rnd.chance < 5 * RandDen,
      source |-> pr.ball,
      scored |-> u.scored,
      resets |-> u.resets ]

BallScore(w, pl, pr, field, r, ts, shakeAmount, cb, canvas, params, rnd) ==
    BallOutcome(w, pl, pr,
                ScoreRightExit(
                  ScoreLeftExit([ ball |-> pr.ball, scored |-> << >>, resets |-> 0 ],
                                field, r, ts, canvas, params, rnd, cb.score),
                  field, r, ts, canvas, params, rnd, cb.score),
                shakeAmount, cb, params, rnd)

BallPaddles(w, pl, field, r, ts, padRight, shakeAmount, cb, canvas, params, rnd) ==
    BallScore(w, pl, CollideRight(pl, padRight, r), field, r, ts, shakeAmount,
              cb, canvas, params, rnd)

BallWall(w, field, r, ts, padLeft, padRight, shakeAmount, cb, canvas, params, rnd) ==
    BallPaddles(w, CollideLeft(w, padLeft, r), field, r, ts, padRight,
                shakeAmount, cb, canvas, params, rnd)

\* update(), line 225: the wall handling of the ball b as moved, with b kept.
WallOutcome(b, field, r) ==
    [ ball |-> handleWallCollision(b, field, r).ball,
      collided |-> handleWallCollision(b, field, r).collided,
      moved |-> b ]

\* update(), lines 225-289, for the ball b as moved.
BallCollide(b, field, r, ts, padLeft, padRight, shakeAmount, cb, canvas, params, rnd) ==
    BallWall(WallOutcome(b, field, r), field, r, ts, padLeft, padRight,
             shakeAmount, cb, canvas, params, rnd)

\* update(timestamp, paddleLeft, paddleRight, shakeAmount, createMultiball).
\* cb = [score, sound, multiball]: which collaborators are present.  Result:
\*   ball     the ball afterwards
\*   shake    the value returned
\*   skipped  the call returned at the reset delay
\*   wall     handleWallCollision returned true
\*   moved    the ball after the move, entry = after the wall handling
\*   hitLeft / hitRight  the paddle whose collision was registered
\*   sounds   calls of soundManager.playSound('paddle')
\*   spawn    createMultiball(this) was called; source = the ball then
\*   scored   the score callback's invocations, in order
\*   resets   calls of reset() from the scoring blocks
BallUpdate(b, ts, padLeft, padRight, shakeAmount, cb, canvas, params, rnd) ==
    IF InResetDelay(b, ts)
      THEN [ ball |-> b, shake |-> shakeAmount, skipped |-> TRUE, wall |-> FALSE,
             moved |-> b, entry |-> b,
             hitLeft |-> FALSE, hitRight |-> FALSE, sounds |-> 0,
             spawn |-> FALSE, source |-> b, scored |-> << >>, resets |-> 0 ]
      ELSE BallCollide(MoveBall(b, params), getFieldOffset(canvas, params),
                       TruncDiv(b.size, 2), ts, padLeft, padRight, shakeAmount,
                       cb, canvas, params, rnd)

\* updateSize()
updateSize(b, params) == [ b EXCEPT !.size = params.ballSize ]

----------------------------------------------------------------------------
(* Paddle (src/modules/paddle.js) *)

\* A paddle update that leaves y where the move put it.
ClampYNone(y, field, height) == y

\* Math.max(field.y, Math.min(field.y + field.height - height, y))
ClampY(y, field, height) == Max2(field.y, Min2(field.y + field.height - height, y))

Sign(a) == IF a > 0 THEN 1 ELSE IF a < 0 THEN -1 ELSE 0

\* new Paddle(x, y, isLeft, gameParams)
NewPaddle(x, y, isLeft, params) ==
    [ x |-> x, y |-> y, width |-> params.paddleWidth,
      height |-> params.paddleSize, isLeft |-> isLeft ]

\* update(keys, canvas, updatedParams)
PaddleUpdate(p, ks, canvas, params) ==
    LET field == getFieldOffset(canvas, params)
        up   == IF p.isLeft THEN ks.w ELSE ks.ArrowUp
        down == IF p.isLeft THEN ks.s ELSE ks.ArrowDown
        y1 == IF up THEN p.y - params.paddleSpeed ELSE p.y
        y2 == IF down THEN y1 + params.paddleSpeed ELSE y1
    IN  [ p EXCEPT !.y = ClampY(y2, field, p.height) ]

\* An AI that stops at the target when it is nearer than one step.
PaddleUpdateAIToTarget(p, targetY, canvas, params) ==
    LET field == getFieldOffset(canvas, params)
        paddleCenter == p.y + TruncDiv(p.height, 2)
        aiSpeed == TruncDiv(params.paddleSpeed * 8, 10)
        step == Sign(targetY - paddleCenter)
                  * Min2(aiSpeed, Abs(targetY - paddleCenter))
    IN  [ p EXCEPT !.y = ClampY(p.y + step, field, p.height) ]

\* updateAI(targetY, canvas, updatedParams)
PaddleUpdateAI(p, targetY, canvas, params) ==
    LET field == getFieldOffset(canvas, params)
        paddleCenter == p.y + TruncDiv(p.height, 2)
        moveDirection == Sign(targetY - paddleCenter)
        aiSpeed == TruncDiv(params.paddleSpeed * 8, 10)
    IN  [ p EXCEPT !.y = ClampY(p.y + moveDirection * aiSpeed, field, p.height) ]

\* updateDimensions()
updateDimensions(p, params) ==
    [ p EXCEPT !.width = params.paddleWidth, !.height = params.paddleSize ]

----------------------------------------------------------------------------
(* Game (src/modules/paddle.js, from line 162) *)

maxBalls == 5

\* The canvas (window) size.
Canvas == [ width |-> 100 * Fx, height |-> 300 * Fx ]

\* The parameter object the game reads: the controller's gameParams, with
\* the default for every parameter this model's controller does not follow.
Snapshot(c) ==
    [n \in DOMAIN defaultParams |->
        IF n \in DOMAIN c.gameParams THEN c.gameParams[n] ELSE defaultParams[n]]

NoKeys == [ w |-> FALSE, s |-> FALSE, ArrowUp |-> FALSE, ArrowDown |-> FALSE ]

\* createGameObjects(): the two paddles
InitialPaddle(isLeft, params) ==
    LET field == getFieldOffset(Canvas, params)
        y == field.y + TruncDiv(field.height - params.paddleSize, 2)
    IN  IF isLeft
          THEN NewPaddle(field.x + 10 * Fx, y, TRUE, params)
          ELSE NewPaddle(field.x + field.width - 10 * Fx - params.paddleWidth,
                         y, FALSE, params)

\* handleKeyDown(e): the keys object afterwards
Opposite(k) ==
    CASE k = "w" -> "s" [] k = "s" -> "w"
      [] k = "ArrowUp" -> "ArrowDown" [] k = "ArrowDown" -> "ArrowUp"

handleKeyDownKeys(ks, k, invertControls) ==
    LET k1 == [ ks EXCEPT ![k] = ~invertControls ]
    IN  IF invertControls THEN [ k1 EXCEPT ![Opposite(k)] = TRUE ] ELSE k1

\* handleKeyUp(e): the keys object afterwards
handleKeyUpKeys(ks, k, invertControls) ==
    LET k1 == [ ks EXCEPT ![k] = FALSE ]
    IN  IF invertControls THEN [ k1 EXCEPT ![Opposite(k)] = FALSE ] ELSE k1

\* updateScore(side)
updateScore(g, side) ==
    IF side = "left" THEN [ g EXCEPT !.leftScore = g.leftScore + 1 ]
    ELSE IF side = "right" THEN [ g EXCEPT !.rightScore = g.rightScore + 1 ]
    ELSE g

\* findClosestBall(paddle).y
RECURSIVE ClosestIn(_, _, _, _, _)
\* The scan `for (let ball of this.balls)` over the balls that satisfy ok:
\* best = [ball index or 0, distance or -1 for Infinity].
ClosestIn(bs, i, center, ok(_), best) ==
    IF i > Len(bs) THEN best
    ELSE LET distance == Abs(bs[i].y - center)
         IN  ClosestIn(bs, i + 1, center, ok,
                       IF ok(bs[i]) /\ (best.d = -1 \/ distance < best.d)
                         THEN [ i |-> i, d |-> distance ] ELSE best)

\* The ball nearest in height, whichever way it moves.
findClosestBallAny(bs, paddle) ==
    IF Len(bs) = 0
      THEN [ x |-> TruncDiv(Canvas.width, 2), y |-> TruncDiv(Canvas.height, 2) ]
      ELSE LET center == paddle.y + TruncDiv(paddle.height, 2)
               any(b) == TRUE
               best == ClosestIn(bs, 1, center, any, [ i |-> 1, d |-> -1 ])
           IN  [ x |-> bs[best.i].x, y |-> bs[best.i].y ]

findClosestBall(bs, paddle) ==
    IF Len(bs) = 0
      THEN [ x |-> TruncDiv(Canvas.width, 2), y |-> TruncDiv(Canvas.height, 2) ]
      ELSE LET center == paddle.y + TruncDiv(paddle.height, 2)
               toward(b) == (b.dx < 0 /\ paddle.isLeft) \/ (b.dx > 0 /\ ~paddle.isLeft)
               any(b) == TRUE
               first == ClosestIn(bs, 1, center, toward, [ i |-> 1, d |-> -1 ])
               best == IF first.d = -1
                         THEN ClosestIn(bs, 1, center, any, [ i |-> 1, d |-> -1 ])
                         ELSE first
           IN  [ x |-> bs[best.i].x, y |-> bs[best.i].y ]

\* 0.8 + Math.random() * 0.4, in thousandths
SpawnFactor(k) == 800 + TruncDiv(400 * k, RandDen)

\* The guard without the population limit.
MayCreateMultiballUnlimited(g, bs, currentTime) ==
    /\ g.params.multiball
    /\ ~(currentTime - g.lastMultiballTime < 500)

\* The guard without the 500 ms between two additions.
MayCreateMultiballNoDelay(g, bs, currentTime) ==
    /\ ~(Len(bs) >= maxBalls)
    /\ g.params.multiball

\* createMultiball(sourceBall): may the call add a ball?
MayCreateMultiball(g, bs, currentTime) ==
    /\ ~(Len(bs) >= maxBalls)
    /\ g.params.multiball
    /\ ~(currentTime - g.lastMultiballTime < 500)

\* createMultiball(sourceBall) at performance.now() = currentTime; the
\* state is st = [g, balls].
createMultiball(st, sourceBall, currentTime, rnd) ==
    IF ~MayCreateMultiball(st.g, st.balls, currentTime) THEN st
    ELSE [ st EXCEPT
             !.balls = Append(st.balls,
                 NewBallAt(Canvas, st.g.params, sourceBall.x, sourceBall.y,
                     TruncDiv(-sourceBall.dx * SpawnFactor(rnd.mbdx), 1000),
                     TruncDiv(sourceBall.dy * ResetDirection(rnd.mbsign)
                                  * SpawnFactor(rnd.mbdy), 1000))),
             !.g = [ st.g EXCEPT !.lastMultiballTime = currentTime,
                                 !.shakeAmount = 8 * Fx ] ]

\* gameLoop: the screen shake decays by 0.92 per frame and stops below 0.1.
ShakeDecay(g) ==
    IF g.params.screenShake /\ g.shakeAmount > 0
      THEN LET s == TruncDiv(g.shakeAmount * 92, 100)
           IN  [ g EXCEPT !.shakeAmount = IF 10 * s < Fx THEN 0 ELSE s ]
      ELSE g

\* gameLoop: paddle dimensions, x positions and the vertical clamp, with the
\* field rectangle computed at the top of the frame.
PlacePaddle(p, field, params) ==
    LET p1 == updateDimensions(p, params)
    IN  [ p1 EXCEPT
            !.x = IF p.isLeft THEN field.x + 10 * Fx
                  ELSE field.x + field.width - 10 * Fx - p1.width,
            !.y = ClampY(p.y, field, p1.height) ]

\* The paddle driven by the AI whatever its flag says.
DrivePaddleAI(p, isAI, ks, bs, params) ==
    PaddleUpdateAI(p, findClosestBall(bs, p).y, Canvas, params)

\* gameLoop: one paddle driven by the keys or by the AI.
DrivePaddle(p, isAI, ks, bs, params) ==
    IF ~isAI THEN PaddleUpdate(p, ks, Canvas, params)
    ELSE PaddleUpdateAI(p, findClosestBall(bs, p).y, Canvas, params)

\* The filter that drops nothing.
KeepMarked(bs) == bs

\* gameLoop: `this.balls = this.balls.filter(ball => !ball.needsRemoval)`
RemoveMarked(bs) == SelectSeq(bs, LAMBDA b : ~b.needsRemoval)

\* The branch that marks no ball.
MarkNoBalls(bs) == bs

\* The branch without `if (i > 0)`: every ball is marked.
MarkAllBalls(bs) ==
    [i \in 1..Len(bs) |-> [ bs[i] EXCEPT !.shouldRespawn = FALSE ]]

\* gameLoop: the `else if (!this.params.multiball)` branch marks every ball
\* but the first.
MarkExtraBalls(bs) ==
    [i \in 1..Len(bs) |-> IF i > 1 THEN [ bs[i] EXCEPT !.shouldRespawn = FALSE ]
                          ELSE bs[i]]

----------------------------------------------------------------------------
(* Game.gameLoop: the loop over the balls.  The loop state is              *)
(* st = [g, balls, ev, nid]: the Game fields, Game.balls, one record per   *)
(* Ball.update call made so far, and the next unused ball identity.        *)

\* The random draws the game is explored with: of reset() (angle, direction,
\* speed), of createMultiball (the two speed factors and the sign), of the
\* spawn timer (the angle) and of the chaos engine.
ResetDraws ==
    { [ angle |-> 0, dir |-> 0, speed |-> 0 ],
      [ angle |-> 7, dir |-> 7, speed |-> 7 ] }

NoResetDraws == { [ angle |-> 0, dir |-> 0, speed |-> 0 ] }

SpawnDraws ==
    { [ mbdx |-> 0, mbsign |-> 0, mbdy |-> 0 ],
      [ mbdx |-> 7, mbsign |-> 7, mbdy |-> 7 ] }

GameChaosUnits ==
    [ target |-> IF glog.env = "keys" THEN {0} ELSE RandUnits,
      color |-> {0}, next |-> {2}, dur |-> {7},
      coin |-> IF glog.env = "cycle" THEN {7} ELSE RandUnits ]

AllCollaborators == [ score |-> TRUE, sound |-> TRUE, multiball |-> TRUE ]

ZeroBallDraws ==
    [ angle |-> 0, dir |-> 0, speed |-> 0, chance |-> 0,
      mbdx |-> 0, mbsign |-> 0, mbdy |-> 0 ]

\* The draws iteration i can consume, from what the update does when no
\* draw matters (r0): a reset draws, a paddle hit with multiball on draws
\* the chance, and a createMultiball that passes its guards draws the
\* velocity.
BallDrawsFor(st, ts, r0) ==
    { [ angle |-> r.angle, dir |-> r.dir, speed |-> r.speed, chance |-> c,
        mbdx |-> m.mbdx, mbsign |-> m.mbsign, mbdy |-> m.mbdy ] :
        r \in (IF r0.resets > 0 THEN ResetDraws ELSE NoResetDraws),
        c \in Units((r0.hitLeft \/ r0.hitRight) /\ st.g.params.multiball),
        m \in (IF /\ (r0.hitLeft \/ r0.hitRight)
                  /\ st.g.params.multiball
                  /\ MayCreateMultiball(st.g, st.balls, ts)
                 THEN SpawnDraws ELSE { [ mbdx |-> 0, mbsign |-> 0, mbdy |-> 0 ] }) }

\* The random draws one iteration can consume.
BallDraws(st, i, ts, pl, pr) ==
    BallDrawsFor(st, ts,
                 BallUpdate(updateSize(st.balls[i], st.g.params), ts, pl, pr,
                            st.g.shakeAmount, AllCollaborators, Canvas,
                            st.g.params, ZeroBallDraws))

RECURSIVE ApplyScores(_, _, _)
ApplyScores(g, scored, k) ==
    IF k > Len(scored) THEN g
    ELSE ApplyScores(updateScore(g, scored[k]), scored, k + 1)

\* The end of iteration i: s1 is the game after the createMultiball callback
\* (when res asked for it); the new ball gets the next id, the score
\* callbacks are applied, and update's return value becomes
\* Game.shakeAmount.
FinishBallAt(st, i, b0, res, s1) ==
    [ g |-> [ ApplyScores(s1.g, res.scored, 1) EXCEPT !.shakeAmount = res.shake ],
      balls |-> [ (IF Len(s1.balls) > Len(st.balls)
                     THEN [ s1.balls EXCEPT ![Len(s1.balls)].id = st.nid ]
                     ELSE s1.balls) EXCEPT ![i] = res.ball ],
      ev |-> Append(st.ev,
               [ index |-> i, pre |-> b0, shakeIn |-> st.g.shakeAmount,
                 res |-> res, added |-> Len(s1.balls) > Len(st.balls),
                 shakeSet |-> s1.g.shakeAmount,
                 shakeOut |-> res.shake,
                 lenAt |-> Len(st.balls),
                 lastAt |-> st.g.lastMultiballTime,
                 lastSet |-> s1.g.lastMultiballTime ]),
      nid |-> IF Len(s1.balls) > Len(st.balls) THEN st.nid + 1 ELSE st.nid ]

\* The callbacks of iteration i, for the outcome res of Ball.update.
CallbacksAt(st, i, ts, rnd, b0, res) ==
    FinishBallAt(st, i, b0, res,
                 IF res.spawn
                   THEN createMultiball([ g |-> st.g, balls |-> st.balls ],
                                        res.source, ts, rnd)
                   ELSE [ g |-> st.g, balls |-> st.balls ])

\* Iteration i: the parameters and size are refreshed, Ball.update runs
\* (its createMultiball and score callbacks act on the game as they are
\* called), and its return value becomes Game.shakeAmount.
UpdateBallAt(st, i, ts, pl, pr, rnd) ==
    CallbacksAt(st, i, ts, rnd, updateSize(st.balls[i], st.g.params),
                BallUpdate(updateSize(st.balls[i], st.g.params), ts, pl, pr,
                           st.g.shakeAmount, AllCollaborators, Canvas,
                           st.g.params, rnd))

\* `for (let i = 0; i < this.balls.length; i++)`: every outcome of the loop
\* from iteration i on; the length is read again at each iteration.
RECURSIVE UpdateBalls(_, _, _, _, _)
UpdateBalls(st, i, ts, pl, pr) ==
    IF i > Len(st.balls) THEN { st }
    ELSE UNION { UpdateBalls(UpdateBallAt(st, i, ts, pl, pr, rnd), i + 1, ts, pl, pr) :
                   rnd \in BallDraws(st, i, ts, pl, pr) }

\* createMultiballSequence(): clears the timer Game.multiballInterval names
\* and starts a new one; tm = the live timers, id = the new timer's id.
SequenceTimer(g, bs, due) ==
    [ ballsToCreate |-> maxBalls - Len(bs), ballsCreated |-> 0, due |-> due ]

\* A clearInterval that cancels nothing.
ClearIntervalNone(tm, id) == tm

ClearInterval(tm, id) == [t \in DOMAIN tm \ {id} |-> tm[t]]

SetInterval(tm, id, t) == [x \in DOMAIN tm \cup {id} |-> IF x = id THEN t ELSE tm[x]]

\* The stop condition that does not look at the multiball parameter.
SequenceOverIgnoringFlag(t, g, bs) ==
    \/ t.ballsCreated >= t.ballsToCreate
    \/ Len(bs) >= maxBalls

\* The test without the sequence's own count.
SequenceOverNoBudget(t, g, bs) ==
    \/ ~g.params.multiball
    \/ Len(bs) >= maxBalls

\* The setInterval callback: does this firing end the sequence?
SequenceOver(t, g, bs) ==
    \/ t.ballsCreated >= t.ballsToCreate
    \/ ~g.params.multiball
    \/ Len(bs) >= maxBalls

\* The ball a firing adds: from the field center, at a random angle over the
\* full circle, with the current ballSpeed.
SequenceBall(params, k) ==
    LET field == getFieldOffset(Canvas, params)
        a == CosSin(TruncDiv(360 * k, RandDen))
    IN  NewBallAt(Canvas, params,
                  field.x + TruncDiv(field.width, 2),
                  field.y + TruncDiv(field.height, 2),
                  TruncDiv(a.cos * params.ballSpeed, 1000),
                  TruncDiv(a.sin * params.ballSpeed, 1000))

\* The step that keeps the marked balls only and never refills.
PopulationStepInverted(bs, params, rnd, nid) ==
    SelectSeq(bs, LAMBDA b : b.needsRemoval)

\* gameLoop, lines 860-874: drop the marked balls; a new ball if none is left.
PopulationStep(bs, params, rnd, nid) ==
    LET kept == RemoveMarked(bs)
    IN  IF Len(kept) = 0
          THEN << [ NewBall(Canvas, params, rnd) EXCEPT !.id = nid ] >>
          ELSE kept

\* Line 877 without the multiballActive flag.
StartsSequenceIgnoringFlag(g, bs) ==
    g.params.multiball /\ Len(bs) < maxBalls

\* gameLoop, line 877: does this frame start a spawn sequence?
StartsSequence(g, bs) ==
    g.params.multiball /\ ~g.multiballActive /\ Len(bs) < maxBalls

\* new Game(): the Game object's fields; multiballInterval 0 is null.
NewGame ==
    [ params |-> defaultParams,
      shakeAmount |-> 0,
      leftScore |-> 0, rightScore |-> 0,
      leftPaddleAI |-> TRUE, rightPaddleAI |-> TRUE,
      lastMultiballTime |-> 0,
      multiballActive |-> FALSE,
      multiballInterval |-> 0 ]

NoTimers == [t \in {} |-> 0]

BallIds(bs) == { bs[i].id : i \in 1..Len(bs) }

GameLogInit(bs) ==
    [ op |-> "init", ticks |-> 0, frames |-> 0, longs |-> 0, resets |-> 0,
      ts |-> 0,
      ev |-> << >>,          \* the Ball.update calls of the latest frame
      pre |-> bs,            \* Game.balls before the latest handler
      preG |-> NewGame,      \* the Game fields before the latest handler
      afterLoop |-> bs,      \* Game.balls after the latest frame's ball loop
      peak |-> Len(bs),      \* the largest length of Game.balls so far
      nid |-> 2,             \* the next unused ball identity
      tid |-> 1,             \* the next unused timer id
      key |-> "",            \* the key of the latest keyboard event
      gone |-> {},           \* the balls that have left Game.balls
      goneNow |-> {},        \* those that left in the latest handler
      mb |-> << >>,          \* when createMultiball last added balls (two kept)
      stale |-> FALSE,       \* reset() or a frame with multiball false has
                             \* happened since the live spawn sequence began
      staleIn |-> FALSE,     \* stale, before the latest handler
      seq |-> FALSE,         \* setInterval was called in a frame since the
                             \* latest frame or reset that left multiball false
      started |-> FALSE,     \* setInterval was called in the latest handler
      held |-> {},           \* the keys physically held down
      kev |-> 0,             \* the keyboard events so far
      env |-> "play" ]       \* the schedule of frames the run follows

----------------------------------------------------------------------------
(* The chaos engine on its own: update and reset called with timestamps    *)
(* that need not increase.                                                 *)

\* The parameters and colors the stand-alone engine follows; every entry of
\* the chaosParams / colorParams tables runs the same code.
ChaosParamNames == {"ballSpeed", "multiball"}

ChaosColorNames == {"backgroundColor"}

MaxChaosCalls == 4

ChaosUnits ==
    [ target |-> RandUnits, color |-> RandUnits, next |-> RandUnits,
      dur |-> RandUnits, coin |-> RandUnits ]

MaxChaosTime == 30000

\* History of one schedule since construction or the latest reset: n, how
\* many times it was re-scheduled (counted up to 2); at, the timestamp of the
\* latest re-scheduling; gap, the time between the latest two; was, the
\* nextChange the latest re-scheduling replaced.
NoSchedule == [ n |-> 0, at |-> 0, gap |-> 0, was |-> 0 ]

\* The history after an update call at ts in which the schedule was due
\* (`timestamp >= nextChange`, behind the start-delay gate) or not.
Rescheduled(h, due, ts, nextChange) ==
    IF due
      THEN [ n |-> Min2(h.n + 1, 2), at |-> ts,
             gap |-> IF h.n = 0 THEN 0 ELSE ts - h.at, was |-> nextChange ]
      ELSE h

\* The log of a controller c that has handled no call yet.
ChaosLogInit(c) ==
    [ first |-> Undefined,  \* first timestamp seen since construction / reset
      last  |-> 0,          \* timestamp of the latest update call
      mono  |-> TRUE,       \* no update so far went back in time
      calls |-> 0,
      op    |-> "new",
      gated |-> FALSE,      \* the latest update returned at the start-delay gate
      undone |-> FALSE,     \* the latest reset followed an update past the gate
      roll  |-> [n \in DOMAIN c.chaosParams |-> NoSchedule],
      step  |-> [n \in DOMAIN c.chaosParams |-> 0],  \* change of current in the latest call
      inv   |-> NoSchedule,  \* the control-inversion evaluations since construction
      ret   |-> c.gameParams ]

LogUpdate(l, c, c2, ts) ==
    [ first |-> IF l.first = Undefined THEN ts ELSE l.first,
      last  |-> ts,
      mono  |-> l.mono /\ ts >= l.last,
      calls |-> l.calls + 1,
      op    |-> "update",
      gated |-> ChaosGated(ChaosStamp(c, ts), ts),
      undone |-> l.undone,
      roll  |-> [n \in DOMAIN l.roll |->
                   Rescheduled(l.roll[n],
                               /\ ~ChaosGated(ChaosStamp(c, ts), ts)
                               /\ ts >= c.chaosParams[n].nextChange,
                               ts, c.chaosParams[n].nextChange)],
      step  |-> [n \in DOMAIN l.step |->
                   c2.chaosParams[n].current - c.chaosParams[n].current],
      inv   |-> Rescheduled(l.inv,
                            /\ ~ChaosGated(ChaosStamp(c, ts), ts)
                            /\ ts >= c.invertControlsNextChange,
                            ts, c.invertControlsNextChange),
      ret   |-> c2.gameParams ]

LogReset(l) ==
    [ l EXCEPT !.first = Undefined, !.calls = l.calls + 1, !.op = "reset",
               !.gated = FALSE, !.undone = ~l.gated,
               !.roll = [n \in DOMAIN l.roll |-> NoSchedule],
               !.step = [n \in DOMAIN l.step |-> 0] ]

InitChaos ==
    /\ chaos = NewChaosController(ChaosParamNames, ChaosColorNames)
    /\ clog = ChaosLogInit(chaos)
    /\ game = NewGame
    /\ balls = << >>
    /\ paddleLeft = InitialPaddle(TRUE, defaultParams)
    /\ paddleRight = InitialPaddle(FALSE, defaultParams)
    /\ keys = NoKeys
    /\ timers = NoTimers
    /\ now = 0
    /\ clock = 0
    /\ glog = GameLogInit(<< >>)

ChaosUpdateCall(dt) ==
    LET ts == clog.last + dt IN
    /\ clog.calls < MaxChaosCalls
    /\ ts >= 0
    /\ ts <= MaxChaosTime
    /\ \E rnd \in ChaosDraws(chaos, ts, ChaosUnits) :
         /\ chaos' = ChaosUpdate(chaos, ts, TRUE, rnd)
         /\ clog' = LogUpdate(clog, chaos, chaos', ts)
    /\ UNCHANGED gameVars

ChaosResetCall ==
    /\ clog.calls < MaxChaosCalls
    /\ clog.op = "update"
    /\ chaos' = ChaosReset(chaos)
    /\ clog' = LogReset(clog)
    /\ UNCHANGED gameVars

\* The timestamp of an update call is the previous call's plus dt.
NextChaos ==
    \/ \E dt \in {-2000, 0, 100, 250, 5000, 10000} : ChaosUpdateCall(dt)
    \/ ChaosResetCall

SpecChaos == InitChaos /\ [][NextChaos]_vars

----------------------------------------------------------------------------
(* The game as a state machine: animation frames, the spawn timer, the     *)
(* keyboard and reset().                                                    *)

GameParamNames == {"multiball"}

GameColorNames == {}

FrameMs == 250

LongFrameMs == 10000

FrameSteps == {FrameMs, LongFrameMs}

MaxTicks == 32

\* A long frame (the page was in the background) comes after the first
\* frame since init() or reset(), the frame that stamps the start of the
\* chaos delay, and is one of the MaxLongFrames frames that follow it.
MaxLongFrames == 1

MaxResets == 1

\* A run over chaos cycles: its frames, and its long frames.
MaxCycleTicks == 60

MaxCycleLongFrames == 3

\* A run at the keyboard: its frames and its keyboard events.
MaxKeyTicks == 4

MaxKeyEvents == 3

KeyNames == {"w", "s", "ArrowUp", "ArrowDown"}

\* init(): createGameObjects, scores zero, the first frame requested.
Init ==
    /\ chaos = NewChaosController(GameParamNames, GameColorNames)
    /\ clog = ChaosLogInit(chaos)
    /\ game = NewGame
    /\ \E rnd \in ResetDraws :
          balls = << [ NewBall(Canvas, defaultParams, rnd) EXCEPT !.id = 1 ] >>
    /\ paddleLeft = InitialPaddle(TRUE, defaultParams)
    /\ paddleRight = InitialPaddle(FALSE, defaultParams)
    /\ keys = NoKeys
    /\ timers = NoTimers
    /\ now = 0
    /\ clock = 0
    /\ glog = GameLogInit(balls)

\* The control with a start of sequence that makes every ball respawn again.
MultiballControlRearming(s, ts, id) ==
    IF StartsSequence(s.g, s.balls)
      THEN [ s EXCEPT
               !.g = [ s.g EXCEPT !.multiballActive = TRUE,
                                  !.multiballInterval = id ],
               !.balls = [i \in 1..Len(s.balls) |->
                            [ s.balls[i] EXCEPT !.shouldRespawn = TRUE ]],
               !.timers = SetInterval(ClearInterval(s.timers, s.g.multiballInterval),
                                      id, SequenceTimer(s.g, s.balls, ts + 300)) ]
      ELSE IF ~s.g.params.multiball
        THEN [ s EXCEPT !.g = [ s.g EXCEPT !.multiballActive = FALSE ],
                        !.balls = MarkExtraBalls(s.balls) ]
        ELSE s

\* gameLoop, lines 876-893: the multiball control at the end of the frame.
\* s = [g, balls, timers]; id = the id setInterval returns.
MultiballControl(s, ts, id) ==
    IF StartsSequence(s.g, s.balls)
      THEN [ s EXCEPT
               !.g = [ s.g EXCEPT !.multiballActive = TRUE,
                                  !.multiballInterval = id ],
               !.timers = SetInterval(ClearInterval(s.timers, s.g.multiballInterval),
                                      id, SequenceTimer(s.g, s.balls, ts + 300)) ]
      ELSE IF ~s.g.params.multiball
        THEN [ s EXCEPT !.g = [ s.g EXCEPT !.multiballActive = FALSE ],
                        !.balls = MarkExtraBalls(s.balls) ]
        ELSE s

\* The instants at which the createMultiball calls of a frame added a ball.
SpawnTimes(ev, ts) ==
    [ k \in 1..Cardinality({ i \in 1..Len(ev) : ev[i].added }) |-> ts ]

LastTwo(q) == IF Len(q) > 2 THEN SubSeq(q, Len(q) - 1, Len(q)) ELSE q

\* gameLoop, lines 860-915: the frame's assignments, for the chaos
\* controller c2, the paddles pl and pr, the outcome st of the ball loop
\* and the outcome s3 of the multiball control.
TickCommit(ts, dt, c2, pl, pr, st, s3) ==
    /\ chaos' = c2
    /\ clog' = LogUpdate(clog, chaos, c2, ts)
    /\ game' = s3.g
    /\ balls' = s3.balls
    /\ paddleLeft' = pl
    /\ paddleRight' = pr
    /\ timers' = s3.timers
    /\ now' = ts
    /\ clock' = ts
    /\ glog' = [ glog EXCEPT
         !.op = "tick",
         !.ticks = glog.ticks + 1,
         !.frames = glog.frames + 1,
         !.longs = IF dt = LongFrameMs THEN glog.longs + 1 ELSE glog.longs,
         !.ts = ts,
         !.ev = st.ev,
         !.pre = balls,
         !.preG = game,
         !.afterLoop = st.balls,
         !.peak = Max2(glog.peak, Max2(Len(st.balls), Len(s3.balls))),
         !.nid = IF Len(RemoveMarked(st.balls)) = 0 THEN st.nid + 1 ELSE st.nid,
         !.tid = IF s3.g.multiballInterval = glog.tid
                   THEN glog.tid + 1 ELSE glog.tid,
         !.gone = glog.gone \cup (BallIds(st.balls) \ BallIds(s3.balls)),
         !.goneNow = BallIds(st.balls) \ BallIds(s3.balls),
         !.mb = LastTwo(glog.mb \o SpawnTimes(st.ev, ts)),
         !.stale = IF s3.g.multiballInterval = glog.tid THEN FALSE
                   ELSE IF DOMAIN timers # {} /\ ~s3.g.params.multiball THEN TRUE
                   ELSE glog.stale,
         !.staleIn = glog.stale,
         !.seq = /\ s3.g.params.multiball
                 /\ (glog.seq \/ s3.g.multiballInterval = glog.tid),
         !.started = (s3.g.multiballInterval = glog.tid) ]
    /\ UNCHANGED keys

\* gameLoop, lines 842-893: the ball loop, the filter and refill, the
\* multiball control.
TickBalls(ts, dt, c2, params, pl, pr) ==
    \E st \in UpdateBalls([ g |-> [ ShakeDecay(game) EXCEPT !.params = params ],
                            balls |-> balls, ev |-> << >>, nid |-> glog.nid ],
                          1, ts, pl, pr) :
      \E frnd \in (IF Len(RemoveMarked(st.balls)) = 0
                     THEN ResetDraws ELSE NoResetDraws) :
        TickCommit(ts, dt, c2, pl, pr, st,
                   MultiballControl(
                     [ g |-> st.g,
                       balls |-> PopulationStep(st.balls, params, frnd, st.nid),
                       timers |-> timers ],
                     ts, glog.tid))

\* gameLoop, lines 814-839: the paddles are placed and driven.
TickPaddles(ts, dt, c2, params, field) ==
    TickBalls(ts, dt, c2, params,
              DrivePaddle(PlacePaddle(paddleLeft, field, params),
                          game.leftPaddleAI, keys, balls, params),
              DrivePaddle(PlacePaddle(paddleRight, field, params),
                          game.rightPaddleAI, keys, balls, params))

\* gameLoop, lines 771 and 808: the field of the frame comes from the
\* parameters of the frame before; then the parameters are refreshed.
TickChaos(ts, dt, c2) ==
    TickPaddles(ts, dt, c2, Snapshot(c2), getFieldOffset(Canvas, game.params))

\* The frames and timer firings a run may have.
TickBound ==
    CASE glog.env = "cycle" -> MaxCycleTicks
      [] glog.env = "keys"  -> MaxKeyTicks
      [] OTHER              -> MaxTicks

\* In a run over chaos cycles the page is in the background, and the next
\* frame a long one, whenever no chaos parameter is in transition and no
\* spawn timer is live.
CycleSkips ==
    /\ glog.longs < MaxCycleLongFrames
    /\ glog.frames >= 1
    /\ DOMAIN timers = {}
    /\ \A n \in DOMAIN chaos.chaosParams :
         \/ chaos.chaosParams[n].transitionStart = Undefined
         \/ now >= chaos.chaosParams[n].transitionStart
                    + chaos.chaosParams[n].transitionDuration

\* May the next frame come dt after the last one?
FrameAllowed(dt) ==
    CASE glog.env = "cycle" -> (dt = LongFrameMs) <=> CycleSkips
      [] glog.env = "keys"  -> dt = LongFrameMs => glog.frames >= 1
      [] OTHER ->
           dt = LongFrameMs =>
             /\ glog.longs < MaxLongFrames
             /\ glog.frames >= 1
             /\ glog.frames <= MaxLongFrames

\* gameLoop(timestamp), one frame dt after the last one.  A frame runs
\* after the timer callbacks that were due before it.
Tick(dt) ==
    /\ glog.ticks < TickBound
    /\ FrameAllowed(dt)
    /\ now + dt >= clock
    /\ \A id \in DOMAIN timers : timers[id].due >= now + dt
    /\ \E crnd \in ChaosDraws(chaos, now + dt, GameChaosUnits) :
         TickChaos(now + dt, dt, ChaosUpdate(chaos, now + dt, TRUE, crnd))

\* The setInterval callback of createMultiballSequence, for timer id.  It
\* runs when its time has come and before any later frame.
TimerFire(id) ==
    /\ id \in DOMAIN timers
    /\ timers[id].due <= now + FrameMs
    /\ glog.ticks < TickBound
    /\ LET t == timers[id]
           over == SequenceOver(t, game, balls)
       IN  /\ \E k \in Pick({4, 7}, ~over) :
                /\ balls' = IF over THEN balls
                            ELSE Append(balls,
                                   [ SequenceBall(game.params, k) EXCEPT !.id = glog.nid ])
                /\ game' = IF over THEN [ game EXCEPT !.multiballInterval = 0 ]
                           ELSE [ game EXCEPT !.shakeAmount = 5 * Fx ]
                /\ timers' =
                     IF over THEN ClearInterval(timers, game.multiballInterval)
                     ELSE [ timers EXCEPT ![id].ballsCreated = t.ballsCreated + 1,
                                          ![id].due = t.due + 300 ]
                /\ glog' = [ glog EXCEPT
                     !.op = "timer", !.ev = << >>, !.pre = balls, !.preG = game,
                     !.afterLoop = balls,
                     !.peak = Max2(glog.peak, Len(balls')),
                     !.nid = IF over THEN glog.nid ELSE glog.nid + 1,
                     !.goneNow = {},
                     !.stale = IF over THEN FALSE ELSE glog.stale,
                     !.staleIn = glog.stale,
                     !.started = FALSE ]
           /\ clock' = Max2(clock, t.due)
    /\ UNCHANGED <<chaos, clog, paddleLeft, paddleRight, keys, now>>

\* handleKeyDown(e), e.key = k
KeyDown(k) ==
    /\ \/ glog.env = "play" /\ glog.op \in {"init", "reset"}
       \/ glog.env = "keys" /\ glog.kev < MaxKeyEvents
    /\ keys' = handleKeyDownKeys(keys, k, game.params.invertControls)
    /\ game' = [ game EXCEPT
                   !.leftPaddleAI = IF k \in {"w", "s"} THEN FALSE ELSE @,
                   !.rightPaddleAI = IF k \in {"ArrowUp", "ArrowDown"} THEN FALSE ELSE @ ]
    /\ glog' = [ glog EXCEPT !.op = "keydown", !.key = k, !.started = FALSE,
                             !.held = @ \cup {k}, !.kev = IF glog.env = "keys" THEN @ + 1 ELSE @,
                             !.ev = << >>, !.pre = balls, !.preG = game,
                             !.afterLoop = balls, !.goneNow = {} ]
    /\ UNCHANGED <<chaos, clog, balls, paddleLeft, paddleRight, timers, now, clock>>

\* handleKeyUp(e), e.key = k
KeyUp(k) ==
    /\ \/ glog.env = "play" /\ glog.op = "keydown" /\ glog.key = k
       \/ glog.env = "keys" /\ glog.kev < MaxKeyEvents /\ k \in glog.held
    /\ keys' = handleKeyUpKeys(keys, k, game.params.invertControls)
    /\ glog' = [ glog EXCEPT !.op = "keyup", !.key = k, !.started = FALSE,
                             !.held = @ \ {k}, !.kev = IF glog.env = "keys" THEN @ + 1 ELSE @,
                             !.ev = << >>, !.pre = balls, !.preG = game,
                             !.afterLoop = balls, !.goneNow = {} ]
    /\ UNCHANGED <<chaos, clog, game, balls, paddleLeft, paddleRight, timers, now, clock>>

\* reset(), called after a frame in which a ball scored, or while a spawn
\* sequence is running.
GameReset ==
    /\ glog.env = "play"
    /\ glog.resets < MaxResets
    /\ \/ /\ glog.op = "tick"
          /\ \E i \in 1..Len(glog.ev) : glog.ev[i].res.scored # << >>
       \/ /\ glog.op \in {"tick", "timer"}
          /\ DOMAIN timers # {}
    /\ chaos' = ChaosReset(chaos)
    /\ clog' = LogReset(clog)
    /\ game' = [ game EXCEPT
                   !.leftScore = 0, !.rightScore = 0,
                   !.leftPaddleAI = TRUE, !.rightPaddleAI = TRUE,
                   !.params = defaultParams,
                   !.shakeAmount = 0 ]
    /\ \E rnd \in ResetDraws :
          balls' = << [ NewBall(Canvas, defaultParams, rnd) EXCEPT !.id = glog.nid ] >>
    /\ paddleLeft' = InitialPaddle(TRUE, defaultParams)
    /\ paddleRight' = InitialPaddle(FALSE, defaultParams)
    /\ glog' = [ glog EXCEPT !.op = "reset", !.resets = glog.resets + 1, !.frames = 0,
                             !.ev = << >>, !.pre = balls, !.preG = game,
                             !.afterLoop = balls', !.nid = glog.nid + 1,
                             !.gone = glog.gone \cup BallIds(balls),
                             !.goneNow = BallIds(balls),
                             !.stale = (DOMAIN timers # {}),
                             !.staleIn = glog.stale,
                             !.seq = FALSE, !.started = FALSE ]
    /\ UNCHANGED <<keys, timers, now, clock>>

Next ==
    \/ \E dt \in FrameSteps : Tick(dt)
    \/ \E id \in DOMAIN timers : TimerFire(id)
    \/ \E k \in KeyNames : KeyDown(k)
    \/ \E k \in KeyNames : KeyUp(k)
    \/ GameReset

Spec == Init /\ [][Next]_vars

\* The game over several chaos cycles: frames and timer firings only, the
\* time between frames following the chaos engine.
InitCycle ==
    /\ chaos = NewChaosController(GameParamNames, GameColorNames)
    /\ clog = ChaosLogInit(chaos)
    /\ game = NewGame
    /\ \E rnd \in ResetDraws :
          balls = << [ NewBall(Canvas, defaultParams, rnd) EXCEPT !.id = 1 ] >>
    /\ paddleLeft = InitialPaddle(TRUE, defaultParams)
    /\ paddleRight = InitialPaddle(FALSE, defaultParams)
    /\ keys = NoKeys
    /\ timers = NoTimers
    /\ now = 0
    /\ clock = 0
    /\ glog = [ GameLogInit(balls) EXCEPT !.env = "cycle" ]

NextCycle ==
    \/ \E dt \in FrameSteps : Tick(dt)
    \/ \E id \in DOMAIN timers : TimerFire(id)

SpecCycle == InitCycle /\ [][NextCycle]_vars

\* The game at the keyboard: keys pressed (and repeated) and released at any
\* moment between frames, of which any but the first may come ten seconds
\* after the one before, so that the chaos engine re-draws invertControls
\* while keys are held; the engine also changes the field's width.
InitKeys ==
    /\ chaos = NewChaosController(GameParamNames \cup {"fieldWidth"},
                                  GameColorNames)
    /\ clog = ChaosLogInit(chaos)
    /\ game = NewGame
    /\ \E rnd \in ResetDraws :
          balls = << [ NewBall(Canvas, defaultParams, rnd) EXCEPT !.id = 1 ] >>
    /\ paddleLeft = InitialPaddle(TRUE, defaultParams)
    /\ paddleRight = InitialPaddle(FALSE, defaultParams)
    /\ keys = NoKeys
    /\ timers = NoTimers
    /\ now = 0
    /\ clock = 0
    /\ glog = [ GameLogInit(balls) EXCEPT !.env = "keys" ]

NextKeys ==
    \/ \E dt \in FrameSteps : Tick(dt)
    \/ \E k \in KeyNames : KeyDown(k)
    \/ \E k \in KeyNames : KeyUp(k)

SpecKeys == InitKeys /\ [][NextKeys]_vars

----------------------------------------------------------------------------
(* Game.createMultiball on its own: called at instants of performance.now() *)
(* that never go back, from any ball of the collection, with the multiball  *)
(* parameter as any frame may have left it.                                 *)

MaxSpawnCalls == 5

SpawnBalls(n) ==
    [ i \in 1..n |->
        [ NewBall(Canvas, defaultParams, [ angle |-> 0, dir |-> 0, speed |-> 0 ])
            EXCEPT !.id = i ] ]

\* The calls start from a population of one, three or maxBalls balls.
InitSpawn ==
    /\ chaos = NewChaosController(GameParamNames, GameColorNames)
    /\ clog = ChaosLogInit(chaos)
    /\ \E m \in BOOLEAN : game = [ NewGame EXCEPT !.params.multiball = m ]
    /\ \E n \in {1, 3, maxBalls} : balls = SpawnBalls(n)
    /\ paddleLeft = InitialPaddle(TRUE, defaultParams)
    /\ paddleRight = InitialPaddle(FALSE, defaultParams)
    /\ keys = NoKeys
    /\ timers = NoTimers
    /\ now = 0
    /\ clock = 0
    /\ glog = [ GameLogInit(balls) EXCEPT !.nid = Len(balls) + 1 ]

\* The state after the call, for its outcome s1 = [g, balls].
SpawnCommit(t, s1) ==
    /\ game' = s1.g
    /\ balls' = IF Len(s1.balls) > Len(balls)
                  THEN [ s1.balls EXCEPT ![Len(s1.balls)].id = glog.nid ]
                  ELSE s1.balls
    /\ now' = t
    /\ clock' = t
    /\ glog' = [ glog EXCEPT
         !.op = "spawn",
         !.ticks = glog.ticks + 1,
         !.ts = t,
         !.ev = << [ res |-> [ spawn |-> TRUE ],
                     added |-> Len(s1.balls) > Len(balls),
                     shakeIn |-> game.shakeAmount,
                     shakeSet |-> s1.g.shakeAmount,
                     shakeOut |-> s1.g.shakeAmount,
                     lenAt |-> Len(balls),
                     lastAt |-> game.lastMultiballTime,
                     lastSet |-> s1.g.lastMultiballTime ] >>,
         !.pre = balls,
         !.preG = game,
         !.peak = Max2(glog.peak, Len(s1.balls)),
         !.nid = IF Len(s1.balls) > Len(balls) THEN glog.nid + 1 ELSE glog.nid,
         !.mb = LastTwo(glog.mb \o (IF Len(s1.balls) > Len(balls)
                                      THEN << t >> ELSE << >>)) ]
    /\ UNCHANGED <<chaos, clog, paddleLeft, paddleRight, keys, timers>>

\* createMultiball(sourceBall), dt after the call before.
SpawnCall(dt) ==
    /\ glog.ticks < MaxSpawnCalls
    /\ \E i \in 1..Len(balls) :
         \E rnd \in SpawnDraws :
           SpawnCommit(now + dt,
                       createMultiball([ g |-> game, balls |-> balls ],
                                       balls[i], now + dt, rnd))

\* gameLoop, line 808: the frame's parameters have the other multiball value.
SpawnFlag ==
    /\ glog.ticks < MaxSpawnCalls
    /\ glog.op # "flag"
    /\ game' = [ game EXCEPT !.params.multiball = ~@ ]
    /\ glog' = [ glog EXCEPT !.op = "flag", !.ev = << >>, !.pre = balls,
                             !.preG = game ]
    /\ UNCHANGED <<chaos, clog, balls, paddleLeft, paddleRight, keys, timers,
                   now, clock>>

\* Between two calls: the same instant, a frame, two frames.
NextSpawn ==
    \/ \E dt \in {0, FrameMs, 2 * FrameMs} : SpawnCall(dt)
    \/ SpawnFlag

SpecSpawn == InitSpawn /\ [][NextSpawn]_vars

----------------------------------------------------------------------------
(* Paddle.update and Paddle.updateAI on their own: called with any of the   *)
(* parameter sets the chaos engine can produce and on a canvas of either    *)
(* size, on paddles built for another parameter set.                        *)

MaxPaddleCalls == 3

\* The window, and one too low for the taller paddles.
PaddleCanvases == {Canvas, [ width |-> 100 * Fx, height |-> 100 * Fx ]}

\* defaultParams with the paddle and field parameters at their default,
\* least and greatest values.
PaddleParamSets ==
    { [ defaultParams EXCEPT !.paddleSize = t.paddleSize,
                             !.paddleWidth = t.paddleWidth,
                             !.paddleSpeed = t.paddleSpeed,
                             !.fieldWidth = t.fieldWidth,
                             !.fieldHeight = t.fieldHeight ] :
        t \in {defaultParams, ParamMin, ParamMax} }

InitPaddle ==
    /\ chaos = NewChaosController(GameParamNames, GameColorNames)
    /\ clog = ChaosLogInit(chaos)
    /\ \E p \in PaddleParamSets :
         /\ game = [ NewGame EXCEPT !.params = p ]
         /\ paddleLeft = InitialPaddle(TRUE, p)
         /\ paddleRight = InitialPaddle(FALSE, p)
    /\ balls = SpawnBalls(1)
    /\ keys = NoKeys
    /\ timers = NoTimers
    /\ now = 0
    /\ clock = 0
    /\ glog = [ op |-> "init", ticks |-> 0, canvas |-> Canvas,
                 pre |-> << paddleLeft, paddleRight >> ]

\* paddle.update(keys, canvas, updatedParams), for both paddles
PaddleKeysCall(canvas, params, ks) ==
    /\ glog.ticks < MaxPaddleCalls
    /\ paddleLeft' = PaddleUpdate(paddleLeft, ks, canvas, params)
    /\ paddleRight' = PaddleUpdate(paddleRight, ks, canvas, params)
    /\ keys' = ks
    /\ game' = [ game EXCEPT !.params = params ]
    /\ glog' = [ op |-> "update", ticks |-> glog.ticks + 1, canvas |-> canvas,
                  pre |-> << paddleLeft, paddleRight >> ]
    /\ UNCHANGED <<chaos, clog, balls, timers, now, clock>>

\* paddle.updateAI(targetY, canvas, updatedParams), for both paddles
PaddleAICall(canvas, params, targetY) ==
    /\ glog.ticks < MaxPaddleCalls
    /\ paddleLeft' = PaddleUpdateAI(paddleLeft, targetY, canvas, params)
    /\ paddleRight' = PaddleUpdateAI(paddleRight, targetY, canvas, params)
    /\ game' = [ game EXCEPT !.params = params ]
    /\ glog' = [ op |-> "updateAI", ticks |-> glog.ticks + 1, canvas |-> canvas,
                  pre |-> << paddleLeft, paddleRight >>, target |-> targetY ]
    /\ UNCHANGED <<chaos, clog, balls, keys, timers, now, clock>>

NextPaddle ==
    \/ \E canvas \in PaddleCanvases, params \in PaddleParamSets :
         \E ks \in { NoKeys,
                     [ NoKeys EXCEPT !.w = TRUE, !.ArrowUp = TRUE ],
                     [ NoKeys EXCEPT !.s = TRUE, !.ArrowDown = TRUE ] } :
             PaddleKeysCall(canvas, params, ks)
    \/ \E canvas \in PaddleCanvases, params \in PaddleParamSets :
         \E targetY \in {0, TruncDiv(canvas.height, 2),
                          TruncDiv(canvas.height, 2) + Fx, canvas.height} :
           PaddleAICall(canvas, params, targetY)

SpecPaddle == InitPaddle /\ [][NextPaddle]_vars

----------------------------------------------------------------------------
(* Ball.update on its own: one ball between two paddles that stand still,   *)
(* updated frame after frame, with any of the score, sound and multiball    *)
(* collaborators present or missing.                                        *)

MaxBallSteps == 10

\* Where the ball starts.  In the field of the default parameters: a step
\* away from the left or the right paddle, at the height of a wall, of a
\* paddle's corner or of its face, with the default speed or that of a ball
\* after some fifteen hits; the right paddle level with the left one or
\* lower.  In the narrowest field with the widest paddles, which this
\* canvas leaves no room between: in front of the left paddle's face.  With
\* the left paddle at the top of the field (top): a fast ball along the top
\* wall, a step away from the paddle.
BallSetups ==
    { [ params |-> [ defaultParams EXCEPT !.multiball = mb ], b |-> b, d |-> d,
        top |-> FALSE ] :
        mb \in BOOLEAN,
        b \in [ x  : {36 * Fx, 64 * Fx},
                y  : {21 * Fx, 97 * Fx, 150 * Fx, 170 * Fx, 279 * Fx},
                dx : {-(14 * Fx), -350, 350, 14 * Fx},
                dy : {-350, -Fx, 0, Fx, 350} ],
        d \in {0, 40 * Fx} }
    \cup
    { [ params |-> [ defaultParams EXCEPT !.fieldWidth = ParamMin.fieldWidth,
                                         !.paddleWidth = ParamMax.paddleWidth ],
        b |-> b, d |-> 0, top |-> FALSE ] :
        b \in [ x : {56 * Fx}, y : {150 * Fx}, dx : {-350}, dy : {0, Fx} ] }
    \cup
    { [ params |-> defaultParams, b |-> b, d |-> 0, top |-> TRUE ] :
        b \in [ x : {36 * Fx}, y : {21 * Fx}, dx : {-(14 * Fx)}, dy : {-Fx, 0} ] }

\* Which of updateScore, soundManager and createMultiball the call has.
CollaboratorSets ==
    { [ score |-> FALSE, sound |-> FALSE, multiball |-> FALSE ],
      [ AllCollaborators EXCEPT !.score = FALSE ],
      [ AllCollaborators EXCEPT !.sound = FALSE ],
      [ AllCollaborators EXCEPT !.multiball = FALSE ] }

\* The history of the harness: GameLogInit's fields, and
\*   prev   the Ball.update call of the frame before
\*   run    the velocity right after the latest paddle collision, while no
\*          wall collision or reset has followed it
\*   runIn  run, before the latest call
\*   cb     the collaborators the latest call had
\*   full   the outcome the latest call has with every collaborator
BallLog(log, prev, run, runIn, cb, full) ==
    [ f \in DOMAIN log \cup {"prev", "run", "runIn", "cb", "full"} |->
        CASE f = "prev"  -> prev
          [] f = "run"   -> run
          [] f = "runIn" -> runIn
          [] f = "cb"    -> cb
          [] f = "full"  -> full
          [] OTHER       -> log[f] ]

InitBall ==
    /\ chaos = NewChaosController(GameParamNames, GameColorNames)
    /\ clog = ChaosLogInit(chaos)
    /\ \E s \in BallSetups :
         /\ game = [ NewGame EXCEPT !.params = s.params ]
         /\ balls = << [ NewBallAt(Canvas, s.params, s.b.x, s.b.y, s.b.dx, s.b.dy)
                           EXCEPT !.id = 1 ] >>
         /\ paddleLeft = [ InitialPaddle(TRUE, s.params) EXCEPT
                             !.y = IF s.top THEN getFieldOffset(Canvas, s.params).y
                                   ELSE @ ]
         /\ paddleRight = [ InitialPaddle(FALSE, s.params) EXCEPT !.y = @ + s.d ]
    /\ keys = NoKeys
    /\ timers = NoTimers
    /\ now = 0
    /\ clock = 0
    /\ glog = BallLog(GameLogInit(balls), << >>, << >>, << >>,
                      AllCollaborators, << >>)

\* The run of paddle collisions after the call with outcome res.
RunAfter(run, res) ==
    IF res.skipped THEN run
    ELSE IF res.resets > 0 \/ res.ball.needsRemoval THEN << >>
    ELSE IF res.hitLeft \/ res.hitRight
           THEN << [ dx |-> res.source.dx, dy |-> res.source.dy ] >>
    ELSE IF res.wall THEN << >>
    ELSE run

BallCommit(ts, res, cb, full) ==
    /\ balls' = << res.ball >>
    /\ game' = [ game EXCEPT !.shakeAmount = res.shake ]
    /\ now' = ts
    /\ clock' = ts
    /\ glog' = BallLog([ GameLogInit(balls) EXCEPT
                           !.op = "ball",
                           !.ticks = glog.ticks + 1,
                           !.frames = glog.frames + 1,
                           !.ts = ts,
                           !.ev = << [ index |-> 1, pre |-> balls[1],
                                       shakeIn |-> game.shakeAmount,
                                       res |-> res, added |-> FALSE,
                                       shakeSet |-> game.shakeAmount,
                                       shakeOut |-> res.shake,
                                       lenAt |-> 1,
                                       lastAt |-> game.lastMultiballTime,
                                       lastSet |-> game.lastMultiballTime ] >>,
                           !.preG = game,
                           !.afterLoop = << res.ball >> ],
                        glog.ev, RunAfter(glog.run, res), glog.run, cb, full)
    /\ UNCHANGED <<chaos, clog, paddleLeft, paddleRight, keys, timers>>

\* ball.update(timestamp, paddleLeft, paddleRight, shakeAmount,
\* createMultiball) with the collaborators cb; the history also keeps the
\* outcome the same call has with every collaborator present.
BallCall(ts, cb, rnd) ==
    BallCommit(ts,
               BallUpdate(balls[1], ts, paddleLeft, paddleRight,
                          game.shakeAmount, cb, Canvas, game.params, rnd),
               cb,
               BallUpdate(balls[1], ts, paddleLeft, paddleRight,
                          game.shakeAmount, AllCollaborators, Canvas,
                          game.params, rnd))

BallStep ==
    /\ glog.ticks < MaxBallSteps
    /\ ~balls[1].needsRemoval
    /\ \E cb \in CollaboratorSets, r \in ResetDraws, c \in RandUnits :
         BallCall(now + FrameMs, cb,
                  [ ZeroBallDraws EXCEPT !.angle = r.angle, !.dir = r.dir,
                                         !.speed = r.speed, !.chance = c ])

SpecBall == InitBall /\ [][BallStep]_vars

----------------------------------------------------------------------------
(* The three ways a ball gets its velocity, each on its own: Ball.reset,    *)
(* the spawn sequence's callback and Game.createMultiball, with any draw    *)
(* of Math.random() and any ballSpeed of the chaos range.                   *)

MaxCreateCalls == 1

\* The window of the game and an 800 x 480 one; the least ballSpeed, one
\* whose 80% is below 2, the default and the greatest.
CreateInputs ==
    [ canvas : {Canvas, [ width |-> 800 * Fx, height |-> 480 * Fx ]},
      ballSpeed : {ParamMin.ballSpeed, 240, defaultParams.ballSpeed,
                   ParamMax.ballSpeed} ]

CreateLog(op, n, in, rnd) ==
    [ op |-> op, ticks |-> n, canvas |-> in.canvas, rnd |-> rnd, pre |-> balls ]

InitCreate ==
    /\ chaos = NewChaosController(GameParamNames, GameColorNames)
    /\ clog = ChaosLogInit(chaos)
    /\ game = [ NewGame EXCEPT !.params.multiball = TRUE ]
    /\ balls = SpawnBalls(1)
    /\ paddleLeft = InitialPaddle(TRUE, defaultParams)
    /\ paddleRight = InitialPaddle(FALSE, defaultParams)
    /\ keys = NoKeys
    /\ timers = NoTimers
    /\ now = 0
    /\ clock = 0
    /\ glog = CreateLog("init", 0, [ canvas |-> Canvas ], ZeroBallDraws)

\* ball.reset(), on a ball whose canvas and parameters are in
ResetCall(in, rnd) ==
    /\ glog.ticks < MaxCreateCalls
    /\ game' = [ game EXCEPT !.params.ballSpeed = in.ballSpeed ]
    /\ balls' = [ balls EXCEPT
                    ![Len(balls)] = BallReset(@, in.canvas, game'.params, rnd) ]
    /\ glog' = CreateLog("reset", glog.ticks + 1, in, rnd)
    /\ UNCHANGED <<chaos, clog, paddleLeft, paddleRight, keys, timers, now, clock>>

\* The spawn sequence's callback when it adds a ball (lines 1018-1037).
SequenceCall(in, k) ==
    /\ glog.ticks < MaxCreateCalls
    /\ Len(balls) < maxBalls
    /\ game' = [ game EXCEPT !.params.ballSpeed = in.ballSpeed,
                             !.shakeAmount = 5 * Fx ]
    /\ balls' = Append(balls, SequenceBall(game'.params, k))
    /\ glog' = CreateLog("sequence", glog.ticks + 1, [ canvas |-> Canvas ],
                         [ ZeroBallDraws EXCEPT !.angle = k ])
    /\ UNCHANGED <<chaos, clog, paddleLeft, paddleRight, keys, timers, now, clock>>

\* createMultiball(sourceBall), half a second after the call before.
MultiballCall(rnd) ==
    /\ glog.ticks < MaxCreateCalls
    /\ game' = createMultiball([ g |-> game, balls |-> balls ],
                               balls[Len(balls)], now + 500, rnd).g
    /\ balls' = createMultiball([ g |-> game, balls |-> balls ],
                                balls[Len(balls)], now + 500, rnd).balls
    /\ now' = now + 500
    /\ clock' = now + 500
    /\ glog' = CreateLog("multiball", glog.ticks + 1, [ canvas |-> Canvas ],
                         [ ZeroBallDraws EXCEPT !.mbdx = rnd.mbdx,
                                                !.mbsign = rnd.mbsign,
                                                !.mbdy = rnd.mbdy ])
    /\ UNCHANGED <<chaos, clog, paddleLeft, paddleRight, keys, timers>>

\* ball.update(...) on a ball at (790, 240) moving right at 3 per frame, in a
\* field 800 wide, with the right paddle at x = 770, y = 200, 15 x 100.
UpdateCall(in, size, dy) ==
    /\ glog.ticks < MaxCreateCalls
    /\ game' = [ game EXCEPT !.params.fieldWidth = in.fieldWidth,
                             !.params.ballSize = size ]
    /\ paddleLeft' = [ paddleLeft EXCEPT !.x = 20 * Fx, !.y = 200 * Fx ]
    /\ paddleRight' = [ paddleRight EXCEPT !.x = 770 * Fx, !.y = 200 * Fx ]
    /\ balls' = << BallUpdate(NewBallAt(in.canvas, game'.params,
                                        790 * Fx, 240 * Fx, 3 * Fx, dy),
                              now + FrameMs, paddleLeft', paddleRight', 0,
                              AllCollaborators, in.canvas, game'.params,
                              ZeroBallDraws).ball >>
    /\ glog' = CreateLog("update", glog.ticks + 1, in, ZeroBallDraws)
    /\ UNCHANGED <<chaos, clog, keys, timers, now, clock>>

NextCreate ==
    \/ \E in \in CreateInputs, a \in 0..(RandDen - 1), d \in RandUnits, s \in {0, 4, 7} :
         ResetCall(in, [ ZeroBallDraws EXCEPT !.angle = a, !.dir = d, !.speed = s ])
    \/ \E in \in { i \in CreateInputs : i.canvas = Canvas }, k \in 0..(RandDen - 1) :
         SequenceCall(in, k)
    \/ \E rnd \in SpawnDraws : MultiballCall(rnd)
    \/ \E in \in { [ canvas |-> [ width |-> 800 * Fx, height |-> 480 * Fx ],
                      fieldWidth |-> 100 ],
                    [ canvas |-> [ width |-> 88889, height |-> 480 * Fx ],
                      fieldWidth |-> 90 ] },
          size \in {defaultParams.ballSize, ParamMax.ballSize},
          dy \in {-Fx, 0, Fx} :
         UpdateCall(in, size, dy)

SpecCreate == InitCreate /\ [][NextCreate]_vars

----------------------------------------------------------------------------
(* Properties of the chaos engine (checked under SpecChaos) *)

DefaultCurrent(n) ==
    IF IsBoolean(n) THEN (IF defaultParams[n] THEN Fx ELSE 0) ELSE defaultParams[n]

DefaultSnapshot == [n \in DOMAIN chaos.gameParams |-> defaultParams[n]]

ChaosUntouched ==
    /\ chaos.gameParams = DefaultSnapshot
    /\ \A n \in DOMAIN chaos.chaosParams :
          /\ chaos.chaosParams[n].current = DefaultCurrent(n)
          /\ chaos.chaosParams[n].target = DefaultCurrent(n)
          /\ chaos.chaosParams[n].nextChange = 0
    /\ \A n \in DOMAIN chaos.colorParams :
          /\ chaos.targetParams[n] = defaultParams[n]
          /\ chaos.colorParams[n].nextChange = 0
    /\ chaos.invertControlsNextChange = 0

InStartDelay ==
    /\ clog.op = "update"
    /\ clog.mono
    /\ clog.last - clog.first < chaosStartDelay

C3_ChaosAfterFiveSeconds ==
    (clog.op = "update" /\ clog.mono /\ clog.first > 0
        /\ clog.last - clog.first >= 5000)
        => ~clog.gated

ParamsInRange ==
    \A n \in DOMAIN chaos.chaosParams :
        /\ ParamMin[n] <= chaos.chaosParams[n].current
        /\ chaos.chaosParams[n].current <= ParamMax[n]

\* C4 as stated: after any sequence of update and reset calls, with
\* timestamps in any order, min <= current <= max for every parameter.
C4_InRangeAnyTimestamps == ParamsInRange

\* C4 amended: the same, for calls whose timestamps never decrease.
C4_InRangeMonotoneTimestamps == clog.mono => ParamsInRange

\* A parameter has moved off its default, toward a re-rolled target, in a
\* run whose timestamps never decreased.
C4_Witness ==
    /\ clog.mono
    /\ clog.op = "update"
    /\ \E n \in DOMAIN chaos.chaosParams :
          /\ chaos.chaosParams[n].current # DefaultCurrent(n)
          /\ chaos.chaosParams[n].target # DefaultCurrent(n)

----------------------------------------------------------------------------
(* Properties of the game (checked under Spec).  glog.ev lists the         *)
(* Ball.update calls of the latest frame: ev[i].pre is the ball going in,  *)
(* ev[i].res what BallUpdate returned.                                      *)

Events == { glog.ev[i] : i \in 1..Len(glog.ev) }

Crossed(e) == e.res.scored # << >>

FieldNow == getFieldOffset(Canvas, game.params)

AtFieldCenter(b) ==
    /\ b.x = FieldNow.x + TruncDiv(FieldNow.width, 2)
    /\ b.y = FieldNow.y + TruncDiv(FieldNow.height, 2)

BallWithId(id) == CHOOSE b \in { balls[j] : j \in 1..Len(balls) } : b.id = id

\* C1: in every reachable state, and at every point inside a frame, timer
\* firing or createMultiball call, Game.balls holds at most maxBalls balls.
C1_PopulationBound ==
    /\ Len(balls) <= maxBalls
    /\ glog.peak <= maxBalls

\* The population is at the bound and a paddle hit asks for one more ball.
C1_Witness ==
    /\ glog.op = "tick"
    /\ Len(glog.pre) = maxBalls
    /\ Len(balls) = maxBalls
    /\ \E e \in Events : e.res.spawn /\ ~e.added

\* C5: one Ball.update call invokes the score callback at most once, so
\* never for both sides.
C5_AtMostOneScore ==
    \A e \in Events : Len(e.res.scored) <= 1

C5_Witness ==
    \E e \in Events : Len(e.res.scored) = 1 /\ ~e.res.skipped

\* C6: the score callback is invoked exactly when the whole ball is past a
\* side boundary, for the opposite side; each invocation adds 1 to that
\* side's score and scores change in no other way; reset() zeroes them.
WholeBallPastLeft(b) == b.x + TruncDiv(b.size, 2) < FieldNow.x

WholeBallPastRight(b) == b.x - TruncDiv(b.size, 2) > FieldNow.x + FieldNow.width

ExitsLeft == { e \in Events : ~e.res.skipped /\ WholeBallPastLeft(e.res.source) }

ExitsRight == { e \in Events : ~e.res.skipped /\ WholeBallPastRight(e.res.source) }

C6_ScoringAtFullExit ==
    /\ \A e \in Events :
         /\ e \in ExitsLeft => e.res.scored = << "right" >>
         /\ e \in ExitsRight => e.res.scored = << "left" >>
         /\ e \notin ExitsLeft \cup ExitsRight => e.res.scored = << >>
    /\ glog.op = "tick" =>
         /\ game.rightScore = glog.preG.rightScore + Cardinality(ExitsLeft)
         /\ game.leftScore = glog.preG.leftScore + Cardinality(ExitsRight)
    /\ glog.op = "reset" => game.leftScore = 0 /\ game.rightScore = 0
    /\ glog.op \in {"timer", "keydown", "keyup"} =>
         /\ game.leftScore = glog.preG.leftScore
         /\ game.rightScore = glog.preG.rightScore

\* A ball left the field on the left and the right player's score went up.
C6_Witness ==
    /\ glog.op = "tick"
    /\ ExitsLeft # {}
    /\ game.rightScore = glog.preG.rightScore + 1
    /\ game.leftScore = glog.preG.leftScore

\* C7: a ball that crosses a side boundary with shouldRespawn set stays in
\* Game.balls, at the field center and in the score cooldown; one that
\* crosses with the flag cleared is marked, is not in Game.balls at the end
\* of the frame, and no later frame updates it.
C7_RespawnOrRemove ==
    /\ \A e \in Events :
         Crossed(e) =>
           IF e.pre.shouldRespawn
             THEN /\ e.pre.id \in BallIds(balls)
                  /\ AtFieldCenter(BallWithId(e.pre.id))
                  /\ BallWithId(e.pre.id).lastScoreTime = glog.ts
                  /\ ~BallWithId(e.pre.id).needsRemoval
             ELSE /\ e.res.ball.needsRemoval
                  /\ e.pre.id \notin BallIds(balls)
                  /\ e.pre.id \in glog.goneNow
    /\ \A e \in Events : e.pre.id \notin glog.gone \ glog.goneNow
    /\ BallIds(balls) \cap glog.gone = {}

\* A ball whose flag was cleared crossed the boundary and was removed.
C7_Witness ==
    \E e \in Events : Crossed(e) /\ ~e.pre.shouldRespawn

\* C8: an update call less than resetDelay after the ball's score changes
\* nothing and calls nothing, and returns the shake it was given; a call at
\* or after that instant moves the ball again.
CoolingDown(e) ==
    e.pre.lastScoreTime > 0 /\ glog.ts < e.pre.lastScoreTime + resetDelay

C8_CooldownIsNoOp ==
    \A e \in Events :
      IF CoolingDown(e)
        THEN /\ e.res.ball = e.pre
             /\ ~e.res.wall /\ ~e.res.hitLeft /\ ~e.res.hitRight
             /\ e.res.sounds = 0
             /\ ~e.res.spawn /\ ~e.added
             /\ e.res.scored = << >>
             /\ e.res.shake = e.shakeIn
        ELSE /\ ~e.res.skipped
             /\ e.res.source.lastScoreTime = 0
             /\ \/ e.res.wall \/ e.res.hitLeft \/ e.res.hitRight
                \/ /\ e.res.source.x = e.pre.x + e.pre.dx
                   /\ e.res.source.y = e.pre.y + e.pre.dy

\* A frame inside a ball's cooldown, with a shake in progress.
C8_Witness ==
    \E e \in Events : CoolingDown(e) /\ e.res.skipped /\ e.shakeIn > 0

\* The first frame at or after the end of a cooldown.
C8_ResumeWitness ==
    \E e \in Events :
      /\ e.pre.lastScoreTime > 0
      /\ glog.ts >= e.pre.lastScoreTime + resetDelay
      /\ ~e.res.skipped

\* C9: Game.balls is never empty at the end of a frame; when the filter
\* leaves nothing, the frame ends with exactly one ball, new and at the
\* field center.
C9_NeverEmpty ==
    /\ Len(balls) >= 1
    /\ (glog.op = "tick" /\ Len(RemoveMarked(glog.afterLoop)) = 0) =>
         /\ Len(balls) = 1
         /\ balls[1].id \notin BallIds(glog.pre)
         /\ AtFieldCenter(balls[1])

\* A frame whose filter removed a ball.
C9_Witness ==
    /\ glog.op = "tick"
    /\ Len(RemoveMarked(glog.afterLoop)) < Len(glog.afterLoop)
    /\ Len(balls) >= 1

\* C10: the statement with "multiball is false" read for the frame alone.
\* With multiball false, several balls and exactly one of them crossing:
\* a crossing ball after the first is removed, the first one is reset, and
\* no other ball leaves.
OneCrossing ==
    /\ glog.op = "tick"
    /\ ~game.params.multiball
    /\ Len(glog.pre) >= 2
    /\ Cardinality({ e \in Events : Crossed(e) }) = 1

OnlyTheCrosserLeaves ==
    \A e \in Events :
      Crossed(e) =>
        /\ IF e.index > 1
             THEN e.pre.id \notin BallIds(balls)
             ELSE e.pre.id \in BallIds(balls) /\ AtFieldCenter(BallWithId(e.pre.id))
        /\ BallIds(glog.pre) \ BallIds(balls) \subseteq {e.pre.id}
        /\ Len(balls) >= Len(glog.pre) - 1

C10_RemovedWhenMultiballOff == OneCrossing => OnlyTheCrosserLeaves

\* C10, amended: the same, for frames that also began with multiball false.
C10_RemovedWhenMultiballStaysOff ==
    (OneCrossing /\ ~glog.preG.params.multiball) => OnlyTheCrosserLeaves

\* Multiball stayed off and a ball after the first crossed and was removed.
C10_Witness ==
    /\ OneCrossing
    /\ ~glog.preG.params.multiball
    /\ \E e \in Events : Crossed(e) /\ e.index > 1 /\ e.pre.id \notin BallIds(balls)

\* C11: a createMultiball call adds a ball only with fewer than maxBalls
\* balls, the multiball parameter true and 500 ms or more since the last
\* ball it added; a call that adds none changes neither the shake nor
\* lastMultiballTime; two balls it adds are 500 ms or more apart.
C11_SpawnGuardsAndRate ==
    /\ glog.op \in {"tick", "spawn"} =>
         \A e \in Events :
           /\ e.added =>
                /\ e.res.spawn
                /\ e.lenAt < maxBalls
                /\ game.params.multiball
                /\ glog.ts - e.lastAt >= 500
                /\ e.lastSet = glog.ts
           /\ ~e.added =>
                /\ e.shakeSet = e.shakeIn
                /\ e.lastSet = e.lastAt
    /\ Len(glog.mb) = 2 => glog.mb[2] - glog.mb[1] >= 500

\* A paddle hit with room for a ball is declined for the 500 ms alone, after
\* createMultiball has added two balls.
C11_Witness ==
    /\ glog.op = "spawn"
    /\ Len(glog.mb) = 2
    /\ \E e \in Events :
         e.res.spawn /\ ~e.added /\ e.lenAt < maxBalls /\ game.params.multiball

\* C12: at most one spawn timer is live, and a live timer is the one
\* Game.multiballInterval names (0 stands for null).
C12_OneLiveTimer ==
    /\ Cardinality(DOMAIN timers) <= 1
    /\ \A id \in DOMAIN timers : id # 0 /\ game.multiballInterval = id
    /\ game.multiballInterval # 0 => game.multiballInterval \in DOMAIN timers

\* reset() was called while a spawn sequence was running: its timer is
\* still live and is the one Game.multiballInterval names.
C12_Witness ==
    /\ glog.op = "reset"
    /\ game.multiballInterval # 0
    /\ DOMAIN timers = { game.multiballInterval }

\* C13: after reset(), or after a frame that left the multiball parameter
\* false, the running spawn sequence adds no ball: its next firing finds
\* the parameter false, leaves Game.balls alone, clears the timer and nulls
\* Game.multiballInterval.
C13_StaleSequenceStops ==
    /\ glog.op = "reset" => ~game.params.multiball
    /\ (glog.stale /\ DOMAIN timers # {}) => ~game.params.multiball
    /\ (glog.op = "timer" /\ (glog.staleIn \/ ~glog.preG.params.multiball)) =>
         /\ balls = glog.pre
         /\ DOMAIN timers = {}
         /\ game.multiballInterval = 0

\* The first firing after a reset() that came in the middle of a sequence
\* that still had balls to create.
C13_Witness ==
    /\ glog.op = "timer"
    /\ glog.staleIn
    /\ glog.resets > 0
    /\ Len(glog.pre) < maxBalls
    /\ balls = glog.pre
    /\ DOMAIN timers = {}

\* C14: a spawn sequence that was not cancelled and saw the multiball
\* parameter true throughout ends (its firing clears the timer) only with
\* maxBalls balls in Game.balls.
SequenceEnded ==
    /\ glog.op = "timer"
    /\ DOMAIN timers = {}
    /\ glog.preG.params.multiball
    /\ ~glog.staleIn

C14_SequenceFillsToMax == SequenceEnded => Len(balls) >= maxBalls

----------------------------------------------------------------------------
(* Properties of the paddles (checked under SpecPaddle; the frames of Spec *)
(* satisfy them too)                                                       *)

\* The canvas of the latest paddle update.
PaddleCanvas == IF glog.op = "tick" THEN Canvas ELSE glog.canvas

PaddleField == getFieldOffset(PaddleCanvas, game.params)

PaddleUpdated == glog.op \in {"update", "updateAI", "tick"}

\* C15: after every Paddle.update and Paddle.updateAI call the paddle has
\* y >= field.y and, whenever its height is at most field.height, also
\* y + height <= field.y + field.height, for the field computed from the
\* parameters passed to that call.
C15_PaddleClamped ==
    PaddleUpdated =>
      \A p \in {paddleLeft, paddleRight} :
        /\ p.y >= PaddleField.y
        /\ p.height <= PaddleField.height =>
             p.y + p.height <= PaddleField.y + PaddleField.height

\* A paddle that fits the field of the call and stuck out below it before
\* the call rests on the field's bottom edge afterwards.
C15_Witness ==
    /\ glog.op \in {"update", "updateAI"}
    /\ paddleLeft.height <= PaddleField.height
    /\ glog.pre[1].y + paddleLeft.height > PaddleField.y + PaddleField.height
    /\ paddleLeft.y + paddleLeft.height = PaddleField.y + PaddleField.height

\* A paddle taller than the field of the call sits on the field's top edge
\* and sticks out below.
C15_TallPaddle ==
    /\ glog.op \in {"update", "updateAI"}
    /\ paddleRight.height > PaddleField.height
    /\ paddleRight.y = PaddleField.y
    /\ paddleRight.y + paddleRight.height > PaddleField.y + PaddleField.height

----------------------------------------------------------------------------
(* Properties of the ball's collisions (checked under SpecBall) *)

\* The Ball.update calls of the latest frame / of the frame before in which
\* exactly one paddle registered a collision.
PaddleHits(ev) ==
    { ev[i] : i \in { j \in 1..Len(ev) :
                        /\ "hitLeft" \in DOMAIN ev[j].res
                        /\ ev[j].res.hitLeft # ev[j].res.hitRight } }

HitPaddle(e) == IF e.res.hitLeft THEN paddleLeft ELSE paddleRight

\* The collision was resolved on the horizontal axis: dx changed sign.
ResolvedHorizontally(e) == Sign(e.res.source.dx) # Sign(e.res.entry.dx)

\* The ball b, placed on one side of the paddle, moves away from it.
AwayHorizontally(b, paddle) ==
    IF 2 * b.x < 2 * paddle.x + paddle.width THEN b.dx < 0 ELSE b.dx > 0

AwayVertically(b, paddle) ==
    IF 2 * b.y < 2 * paddle.y + paddle.height THEN b.dy < 0 ELSE b.dy > 0

PointsAway(e) ==
    IF ResolvedHorizontally(e)
      THEN AwayHorizontally(e.res.source, HitPaddle(e))
      ELSE AwayVertically(e.res.source, HitPaddle(e))

\* The velocity on the axis the collision d was resolved on has another sign
\* when the collision e is registered.
FlippedBetween(d, e) ==
    IF ResolvedHorizontally(d)
      THEN Sign(e.res.entry.dx) # Sign(d.res.entry.dx)
      ELSE Sign(e.res.entry.dy) # Sign(d.res.entry.dy)

\* After a paddle collision the velocity on the resolved axis points away.
HitsPointAway == \A e \in PaddleHits(glog.ev) : PointsAway(e)

\* Collisions with the same paddle in two consecutive frames have a sign
\* flip between them.
NoRepeatWithoutFlip ==
    \A d \in PaddleHits(glog.prev), e \in PaddleHits(glog.ev) :
      d.res.hitLeft = e.res.hitLeft => FlippedBetween(d, e)

\* C16: after every paddle-collision resolution the ball's velocity on the
\* resolved axis points away from the paddle, and a ball never registers
\* collisions with the same paddle in two consecutive ticks without its
\* velocity sign on that axis having flipped in between.
C16_AwayFromPaddle == HitsPointAway /\ NoRepeatWithoutFlip

\* Every successful paddle collision multiplies the magnitude of dx and of
\* dy by 1.1.
EachHitTimesOnePointOne ==
    \A e \in PaddleHits(glog.ev) :
      /\ Abs(e.res.source.dx) = SpeedUp(Abs(e.res.entry.dx))
      /\ Abs(e.res.source.dy) = SpeedUp(Abs(e.res.entry.dy))

\* Over a run of paddle collisions with no wall collision (or reset) between
\* them, |dx| right after each collision does not decrease.
RunKeepsDx ==
    \A e \in PaddleHits(glog.ev) :
      (~e.res.wall /\ glog.runIn # << >>) =>
        Abs(e.res.source.dx) >= Abs(glog.runIn[1].dx)

RunKeepsDy ==
    \A e \in PaddleHits(glog.ev) :
      (~e.res.wall /\ glog.runIn # << >>) =>
        Abs(e.res.source.dy) >= Abs(glog.runIn[1].dy)

\* C17: every successful paddle collision multiplies the magnitude of both
\* dx and dy by 1.1, so over any run of consecutive paddle collisions with
\* no wall collision between them, |dx| and |dy| measured right after each
\* collision are both non-decreasing.
C17_SpeedGrowth == EachHitTimesOnePointOne /\ RunKeepsDx /\ RunKeepsDy

\* The Ball.update calls of the latest frame that got past the reset delay.
WallCalls ==
    { e \in Events : "moved" \in DOMAIN e.res /\ ~e.res.skipped }

BallRadius(e) == TruncDiv(e.pre.size, 2)

HitsTop(e) == e.res.moved.y - BallRadius(e) < FieldNow.y

HitsBottom(e) == e.res.moved.y + BallRadius(e) > FieldNow.y + FieldNow.height

\* C18: immediately after handleWallCollision the ball no longer penetrates
\* the top or bottom wall, field.y + r <= y <= field.y + field.height - r
\* (for field.height >= 2r), with dy >= 0 after a top hit and dy <= 0 after
\* a bottom hit, and the function returns true exactly when a correction was
\* applied.
C18_WallResolved ==
    \A e \in WallCalls :
      FieldNow.height >= 2 * BallRadius(e) =>
        /\ FieldNow.y + BallRadius(e) <= e.res.entry.y
        /\ e.res.entry.y <= FieldNow.y + FieldNow.height - BallRadius(e)
        /\ HitsTop(e) => e.res.entry.dy >= 0
        /\ HitsBottom(e) => e.res.entry.dy <= 0
        /\ e.res.wall <=> (HitsTop(e) \/ HitsBottom(e))
        /\ e.res.wall <=> (e.res.entry.y # e.res.moved.y)
        /\ ~e.res.wall => e.res.entry = e.res.moved

\* A ball moving down went through the bottom wall and was put back on it,
\* moving up.
C18_Witness ==
    /\ glog.op = "ball"
    /\ \E e \in WallCalls :
         /\ HitsBottom(e)
         /\ e.res.moved.dy > 0
         /\ e.res.wall
         /\ e.res.entry.y = FieldNow.y + FieldNow.height - BallRadius(e)
         /\ e.res.entry.dy = -e.res.moved.dy

----------------------------------------------------------------------------
(* Properties of the balls' creation (checked under SpecCreate) *)

\* The ball the latest call reset or added, and the field of that call.
Made == balls[Len(balls)]

MadeField == getFieldOffset(glog.canvas, game.params)

MadeAtCenter ==
    /\ Abs(2 * (Made.x - MadeField.x) - MadeField.width) <= 1
    /\ Abs(2 * (Made.y - MadeField.y) - MadeField.height) <= 1

\* Ten times max(2, 0.8 * ballSpeed).
TenMinSpeed == Max2(20 * Fx, 8 * game.params.ballSpeed)

SpeedSquared == Made.dx * Made.dx + Made.dy * Made.dy

\* The 800 x 480 example: default parameters, angle 0, direction +1.
ExampleReset ==
    /\ glog.op = "reset"
    /\ glog.canvas = [ width |-> 800 * Fx, height |-> 480 * Fx ]
    /\ game.params.ballSpeed = defaultParams.ballSpeed
    /\ ResetAngle(glog.rnd.angle) = 0
    /\ ResetDirection(glog.rnd.dir) = 1

ExampleOutcome ==
    /\ Made.dy = 0
    /\ 280 <= Made.dx /\ Made.dx <= 350
    /\ Made.x = 400 * Fx /\ Made.y = 240 * Fx

C20_NoVerticalBall == \A i \in 1..Len(balls) : balls[i].dx # 0

----------------------------------------------------------------------------
\* Keyboard intent (the run at the keyboard, SpecKeys).

\* What the held keys of one paddle mean under a value of invertControls.
IntentOf(upKey, downKey, inverted) ==
    [ up   |-> IF inverted THEN downKey \in glog.held ELSE upKey \in glog.held,
      down |-> IF inverted THEN upKey \in glog.held ELSE downKey \in glog.held ]

IntentMatches(upKey, downKey) ==
    LET want == IntentOf(upKey, downKey, game.params.invertControls)
    IN  keys[upKey] = want.up /\ keys[downKey] = want.down

IntentAtTick ==
    glog.op = "tick" =>
      /\ ~game.leftPaddleAI => IntentMatches("w", "s")
      /\ ~game.rightPaddleAI => IntentMatches("ArrowUp", "ArrowDown")

NoIntentWhenReleased == glog.held = {} => keys = NoKeys

\* C21: at every tick each manually controlled paddle's movement intent is
\* the physically held keys mapped through the current invertControls value,
\* and once every key is released no movement intent remains, even if
\* invertControls changed between the press and the release.
C21_IntentFollowsHeldKeys == IntentAtTick /\ NoIntentWhenReleased

----------------------------------------------------------------------------
\* Who drives the paddles (Spec).

\* The paddle a frame leaves when the keys drive it.
KeyDriven(p) ==
    PaddleUpdate(PlacePaddle(p, getFieldOffset(Canvas, game.params), game'.params),
                 keys, Canvas, game'.params)

BothPaddlesAI == game.leftPaddleAI /\ game.rightPaddleAI

ControlStep ==
    /\ glog'.op = "keydown" =>
         /\ game'.leftPaddleAI = (game.leftPaddleAI /\ glog'.key \notin {"w", "s"})
         /\ game'.rightPaddleAI =
              (game.rightPaddleAI /\ glog'.key \notin {"ArrowUp", "ArrowDown"})
    /\ glog'.op = "tick" =>
         /\ ~game.leftPaddleAI => paddleLeft' = KeyDriven(paddleLeft)
         /\ ~game.rightPaddleAI => paddleRight' = KeyDriven(paddleRight)
    /\ glog'.op = "reset" => BothPaddlesAI'
    /\ glog'.op \notin {"keydown", "reset"} =>
         /\ game'.leftPaddleAI = game.leftPaddleAI
         /\ game'.rightPaddleAI = game.rightPaddleAI

\* C22: both paddles start AI-controlled; W or S makes only the left paddle
\* manual, ArrowUp or ArrowDown only the right one; a manual paddle is driven
\* by the keys on every later tick until Game.reset, which makes both
\* paddles AI-controlled again.
C22_ManualUntilReset == BothPaddlesAI /\ [][ControlStep]_vars

\* After a reset S was pressed: the left paddle alone is manual and the frame
\* has moved it down, away from the AI-driven right paddle.
C22_Witness ==
    /\ glog.op = "tick"
    /\ glog.resets >= 1
    /\ ~game.leftPaddleAI /\ game.rightPaddleAI
    /\ keys["s"] /\ ~keys["w"]
    /\ paddleLeft.y > paddleRight.y

----------------------------------------------------------------------------
\* ChaosController.reset (SpecChaos).

\* Everything reset() writes is back at its default.
ChaosRestored ==
    /\ ChaosUntouched
    /\ \A n \in DOMAIN chaos.colorParams :
          chaos.colorParams[n].current = defaultParams[n]
    /\ chaos.startTime = 0

ResetStep ==
    /\ clog'.op = "reset" => ChaosRestored'
    /\ (/\ ChaosUntouched
        /\ clog.first = Undefined
        /\ clog'.op = "update") => clog'.first = clog'.last
    /\ (/\ ChaosUntouched
        /\ clog'.op = "update"
        /\ clog'.last - clog'.first < chaosStartDelay) =>
           (ChaosUntouched' /\ clog'.ret = DefaultSnapshot)

\* C23: reset restores every parameter's current and target and the
\* snapshot to the defaults and clears the schedule and the start-delay
\* state: from a reset on, every update less than 10000 ms after the next
\* observed timestamp leaves all of it at the defaults.
C23_ResetRegates == [][ResetStep]_vars

\* The controller had started changing parameters, was reset, and the next
\* update, 10000 ms or more after the first timestamp ever seen, stopped at
\* the gate again with everything at its default.
C23_Witness ==
    /\ clog.op = "update"
    /\ clog.undone
    /\ clog.gated
    /\ clog.last >= chaosStartDelay
    /\ ChaosUntouched

----------------------------------------------------------------------------
\* Missing collaborators (SpecBall).

\* Nothing was called on a collaborator the call did not have.
AbsentNotCalled(e) ==
    /\ ~glog.cb.sound => e.res.sounds = 0
    /\ ~glog.cb.multiball => ~e.res.spawn
    /\ ~glog.cb.score => e.res.scored = << >>

\* The ball and the returned shake are those of the call with every
\* collaborator present.
SameAsFull(e) ==
    /\ e.res.ball = glog.full.ball
    /\ e.res.shake = glog.full.shake
    /\ e.res.skipped = glog.full.skipped

\* C24: Ball.update with no sound manager, no multiball callback or no score
\* callback completes without calling what it lacks, and the ball's
\* position, velocity, trail, flags and the returned shake are the same as
\* with the collaborators present.
C24_CollaboratorsOptional ==
    glog.op = "ball" => (AbsentNotCalled(glog.ev[1]) /\ SameAsFull(glog.ev[1]))

\* A call with no collaborator at all on a paddle hit that, with them,
\* plays the sound and calls createMultiball.
C24_Witness ==
    /\ glog.op = "ball"
    /\ ~glog.cb.score /\ ~glog.cb.sound /\ ~glog.cb.multiball
    /\ glog.full.sounds = 1
    /\ glog.full.spawn

\* A call with no collaborator at all in which the ball leaves the field:
\* the score callback is skipped, the ball is reset all the same.
C24_ScoreWithoutCallback ==
    /\ glog.op = "ball"
    /\ ~glog.cb.score /\ ~glog.cb.sound /\ ~glog.cb.multiball
    /\ glog.full.scored # << >>
    /\ glog.ev[1].res.resets = 1

----------------------------------------------------------------------------
\* The spawn sequence ends (SpecCycle).

\* The firing added one ball and counted it; the timer stays.
FiringAdds ==
    /\ Len(balls') = Len(balls) + 1
    /\ DOMAIN timers' = DOMAIN timers
    /\ \A id \in DOMAIN timers :
         /\ timers'[id].ballsToCreate = timers[id].ballsToCreate
         /\ timers'[id].ballsCreated = timers[id].ballsCreated + 1
         /\ timers'[id].ballsCreated <= timers'[id].ballsToCreate

\* The firing added nothing and cleared the timer.
FiringClears == balls' = balls /\ timers' = NoTimers

SequenceStep ==
    /\ glog'.op = "timer" =>
         /\ FiringAdds \/ FiringClears
         /\ Len(balls) >= maxBalls => FiringClears
    /\ \A id \in DOMAIN timers' \ DOMAIN timers :
         /\ timers'[id].ballsCreated = 0
         /\ timers'[id].ballsToCreate = maxBalls - Len(balls')

\* C25: every spawn sequence terminates: a sequence starts with a budget of
\* maxBalls minus the ball count, each firing of its timer either adds one
\* ball and uses up one unit of the budget or clears the timer, and a firing
\* that finds the population full adds nothing and clears the timer.
C25_SequenceTerminates == [][SequenceStep]_vars

\* A firing found the population full with multiball still on, added
\* nothing and cleared the timer.
C25_Witness ==
    /\ glog.op = "timer"
    /\ Len(glog.pre) >= maxBalls
    /\ timers = NoTimers
    /\ balls = glog.pre
    /\ glog.preG.params.multiball

----------------------------------------------------------------------------
\* One paddle per update (SpecBall).

\* C26: in a single Ball.update call a ball registers a collision with at
\* most one paddle; the left paddle is tested only while dx < 0 and the
\* right paddle only while dx > 0.
C26_OnePaddlePerUpdate ==
    glog.op = "ball" =>
      LET r == glog.ev[1].res
      IN  /\ ~(r.hitLeft /\ r.hitRight)
          /\ r.hitLeft => r.entry.dx < 0
          /\ r.hitRight => r.entry.dx > 0

----------------------------------------------------------------------------
\* The written paddle scenario (SpecCreate).

\* C27: a ball at (790, 240) with dx = 3 and the right paddle at x = 770,
\* width 15, y = 200, height 100, in a field 800 wide: after the move and
\* the paddle-collision resolution dx is negative, of magnitude 2 or more,
\* and the ball's x is at most 770.
C27_ScenarioBounce ==
    glog.op = "update" =>
      /\ balls[1].dx < 0
      /\ Abs(balls[1].dx) >= 2 * Fx
      /\ balls[1].x <= 770 * Fx

----------------------------------------------------------------------------
\* The field the paddles are placed in (SpecKeys).

\* C28: in each tick the field rectangle used to set the paddles' x
\* positions and to clamp their y positions is computed from the chaos
\* snapshot obtained in that same tick, not from the parameters of the tick
\* before.
C28_PaddlesInCurrentField ==
    glog.op = "tick" =>
      /\ paddleLeft.x = FieldNow.x + 10 * Fx
      /\ paddleRight.x = FieldNow.x + FieldNow.width - 10 * Fx - paddleRight.width
      /\ paddleLeft.y = ClampY(paddleLeft.y, FieldNow, paddleLeft.height)
      /\ paddleRight.y = ClampY(paddleRight.y, FieldNow, paddleRight.height)

----------------------------------------------------------------------------
\* The ball the AI follows (SpecCycle).

PaddleCenter(p) == p.y + TruncDiv(p.height, 2)

\* The balls whose dx points toward the paddle p.
MovingToward(p) ==
    { i \in 1..Len(balls) : IF p.isLeft THEN balls[i].dx < 0 ELSE balls[i].dx > 0 }

\* The balls findClosestBall chooses among.
Candidates(p) == IF MovingToward(p) # {} THEN MovingToward(p) ELSE 1..Len(balls)

HeightFrom(p, i) == Abs(balls[i].y - PaddleCenter(p))

ClosestChosen(p) ==
    balls # << >> =>
      \E i \in Candidates(p) :
         /\ findClosestBall(balls, p) = [ x |-> balls[i].x, y |-> balls[i].y ]
         /\ \A j \in Candidates(p) : HeightFrom(p, i) <= HeightFrom(p, j)

CanvasCenter == [ x |-> TruncDiv(Canvas.width, 2), y |-> TruncDiv(Canvas.height, 2) ]

\* C29: findClosestBall returns, among the balls whose dx points toward the
\* paddle, one with the least |ball.y - paddle center|; only if no ball
\* moves toward the paddle, one with the least distance among all balls;
\* and with no ball at all, the canvas center.
C29_ClosestBall ==
    /\ ClosestChosen(paddleLeft)
    /\ ClosestChosen(paddleRight)
    /\ findClosestBall(<< >>, paddleLeft) = CanvasCenter
    /\ findClosestBall(<< >>, paddleRight) = CanvasCenter

\* After a frame with three balls or more: a ball moving away from the left
\* paddle is nearer in height than every ball moving toward it.
C29_Witness ==
    /\ glog.op = "tick"
    /\ Len(balls) >= 3
    /\ MovingToward(paddleLeft) # {}
    /\ \E i \in 1..Len(balls) \ MovingToward(paddleLeft) :
          \A j \in MovingToward(paddleLeft) :
             HeightFrom(paddleLeft, i) < HeightFrom(paddleLeft, j)

----------------------------------------------------------------------------
\* The AI's step (SpecPaddle).

\* Where updateAI's move puts the paddle `before`, ahead of the clamp: one
\* full step of 0.8 * paddleSpeed in the direction of the target.
AIStep(before) ==
    Sign(glog.target - (before.y + TruncDiv(before.height, 2)))
      * TruncDiv(game.params.paddleSpeed * 8, 10)

AIMoved(before, after) ==
    /\ after.y = ClampY(before.y + AIStep(before), PaddleField, before.height)
    /\ AIStep(before) = 0 <=>
         glog.target = before.y + TruncDiv(before.height, 2)

\* C30: Paddle.updateAI changes y, before clamping, by exactly
\* sign(targetY - paddleCenter) * 0.8 * paddleSpeed: the full step is taken
\* even when the target is nearer than one step, and y is unchanged only
\* when targetY equals the paddle center.
C30_FullStep ==
    glog.op = "updateAI" =>
      /\ AIMoved(glog.pre[1], paddleLeft)
      /\ AIMoved(glog.pre[2], paddleRight)

\* Overshoot: the target was below the left paddle's center and nearer than
\* one step; after the call, which the clamp did not cut, the center is
\* below the target by the rest of the step.
C30_Witness ==
    /\ glog.op = "updateAI"
    /\ glog.target > glog.pre[1].y + TruncDiv(glog.pre[1].height, 2)
    /\ glog.target < paddleLeft.y + TruncDiv(paddleLeft.height, 2)
    /\ paddleLeft.y - glog.pre[1].y = TruncDiv(game.params.paddleSpeed * 8, 10)

----------------------------------------------------------------------------
\* The re-roll schedule of a parameter (SpecChaos).

\* C31: for each chaos parameter, between resets, every re-scheduling sets
\* nextChange to a value strictly greater than the one it replaces, and two
\* consecutive re-rolls of the same parameter are at least 5000 ms apart.
C31_ScheduleAdvances ==
    \A n \in DOMAIN clog.roll :
        clog.roll[n].n > 0 =>
            /\ chaos.chaosParams[n].nextChange > clog.roll[n].was
            /\ clog.roll[n].n > 1 => clog.roll[n].gap >= 5000

\* A parameter re-rolled for the second time since the latest reset, by the
\* latest call, over a nextChange the first re-roll had set.
C31_Witness ==
    /\ clog.op = "update"
    /\ \E n \in DOMAIN clog.roll :
          /\ clog.roll[n].n = 2
          /\ clog.roll[n].at = clog.last
          /\ clog.roll[n].was >= clog.roll[n].at - clog.roll[n].gap + 5000

----------------------------------------------------------------------------
\* The smooth transition of a parameter (SpecChaos).

\* One update call, at the timestamp ts of a clock, seen from parameter n:
\* p before the call, q after it.  The gap is measured to the target in force
\* in the call (q.target: a re-roll comes before the transition).
TransitionOf(p, q, ts) ==
    LET gap == q.target - p.current
        d   == q.current - p.current
    IN  /\ 10 * Abs(d) <= Abs(gap)
        /\ d * gap >= 0
        /\ ts >= q.transitionStart + q.transitionDuration => d = 0

TransitionStep ==
    (clog'.op = "update" /\ clog'.mono) =>
        \A n \in DOMAIN chaos.chaosParams :
            TransitionOf(chaos.chaosParams[n], chaos'.chaosParams[n], clog'.last)

\* C32: in one updateParameters call a parameter's current moves toward its
\* target, by at most 10% of the remaining gap and never past the target,
\* and it does not change at all in a call outside the transition window
\* (timestamp >= transitionStart + transitionDuration).  Timestamps are
\* those of a clock: no call went back in time.
C32_RateLimited == [][TransitionStep]_vars

\* A parameter that moved off its default inside a transition window and is
\* left where it is, short of its target, by a call after the window.
C32_Witness ==
    /\ clog.op = "update"
    /\ clog.mono
    /\ \E n \in DOMAIN chaos.chaosParams :
          LET p == chaos.chaosParams[n] IN
          /\ p.current # DefaultCurrent(n)
          /\ p.current # p.target
          /\ clog.roll[n].n > 0
          /\ clog.last >= p.transitionStart + p.transitionDuration
          /\ clog.step[n] = 0

----------------------------------------------------------------------------
\* The control-inversion schedule (SpecChaos).

\* The update call at ts evaluates the inversion: it got past the start-delay
\* gate and `timestamp >= this.invertControlsNextChange`.
Evaluates(c, ts) ==
    /\ ~ChaosGated(ChaosStamp(c, ts), ts)
    /\ ts >= c.invertControlsNextChange

\* A step that changes invertControls in the snapshot is an update call that
\* evaluates the inversion, or the reset that puts the default (false) back.
InvertStep ==
    chaos'.gameParams["invertControls"] # chaos.gameParams["invertControls"] =>
        \/ clog'.op = "update" /\ Evaluates(chaos, clog'.last)
        \/ clog'.op = "reset" /\ ~chaos'.gameParams["invertControls"]

\* With the timestamps of a clock, invertControls is false from construction
\* or reset until the start-delay gate opens, and an evaluation comes 10000 ms
\* or more after the one before it.
InvertSchedule ==
    clog.mono =>
        /\ (clog.op # "update" \/ clog.gated) => ~chaos.gameParams["invertControls"]
        /\ clog.inv.n > 1 => clog.inv.gap >= 10000

\* C33: invertControls in the snapshot changes only at control-inversion
\* evaluation points (and goes back to false at reset); it is false
\* throughout the start-delay gate; two consecutive evaluations are at least
\* 10000 ms apart.  Timestamps are those of a clock: no call went back in
\* time.
C33_InversionSchedule == [][InvertStep /\ InvertSchedule']_vars

\* The second evaluation, by the latest call, turned the inversion on.
C33_Witness ==
    /\ clog.op = "update"
    /\ clog.mono
    /\ clog.inv.n = 2
    /\ clog.inv.at = clog.last
    /\ clog.inv.gap >= 10000
    /\ chaos.gameParams["invertControls"]

----------------------------------------------------------------------------
(* The color blend on its own: a controller following one color, just    *)
(* after the update call that drew the color's target.  The ticks that   *)
(* follow come before the color's nextChange, so the target stays; the   *)
(* blend does not read the timestamp, which is held.                     *)

\* The first update call past the start-delay gate, drawing k for the color.
InitBlend ==
    /\ \E n \in {"ballColor", "paddleColor", "backgroundColor",
                  "fieldBorderColor"}, k \in 0..(RandDen - 1) :
         LET c0 == ChaosUpdate(NewChaosController({}, {n}), FrameMs, TRUE,
                               [ target |-> << >>, color |-> [m \in {n} |-> 0],
                                 next |-> 0, dur |-> 0, coin |-> 0 ])
             ts == FrameMs + chaosStartDelay
         IN  /\ chaos = ChaosUpdate(c0, ts, TRUE,
                            [ target |-> << >>, color |-> [m \in {n} |-> k],
                              next |-> 0, dur |-> 0, coin |-> 7 ])
             /\ clog = [ ChaosLogInit(chaos) EXCEPT
                           !.first = FrameMs, !.last = ts, !.calls = 2,
                           !.op = "update",
                           !.inv = [ NoSchedule EXCEPT !.n = 1, !.at = ts ] ]
    /\ game = NewGame
    /\ balls = << >>
    /\ paddleLeft = InitialPaddle(TRUE, defaultParams)
    /\ paddleRight = InitialPaddle(FALSE, defaultParams)
    /\ keys = NoKeys
    /\ timers = NoTimers
    /\ now = 0
    /\ clock = 0
    /\ glog = GameLogInit(<< >>)

\* One more update call before the color's nextChange.
BlendTick ==
    /\ \E rnd \in ChaosDraws(chaos, clog.last, ChaosUnits) :
         chaos' = ChaosUpdate(chaos, clog.last, TRUE, rnd)
    /\ clog' = [ clog EXCEPT !.ret = chaos'.gameParams ]
    /\ UNCHANGED gameVars

SpecBlend == InitBlend /\ [][BlendTick]_vars /\ WF_vars(BlendTick)

----------------------------------------------------------------------------
\* The color blend (SpecBlend).

Channels == {"r", "g", "b"}

\* Channel ch of the color went from a to b with target t: toward t, or
\* staying, and not past it.
ChannelToward(a, b, t) ==
    \/ a <= b /\ b <= t
    \/ t <= b /\ b <= a

BlendStep ==
    \A n \in DOMAIN chaos.targetParams :
        /\ chaos'.targetParams[n] = chaos.targetParams[n]
        /\ \A ch \in Channels :
              ChannelToward(hexToRgb(chaos.gameParams[n])[ch],
                            hexToRgb(chaos'.gameParams[n])[ch],
                            hexToRgb(chaos.targetParams[n])[ch])

ColorsAtTarget ==
    \A n \in DOMAIN chaos.targetParams : chaos.gameParams[n] = chaos.targetParams[n]

\* C34: with a color's target held fixed, a tick's blend moves each RGB
\* channel of the current color toward the target channel, never away from
\* it or past it, and repeated ticks bring the current color to the target
\* color.
C34_BlendConverges == [][BlendStep]_vars /\ <>ColorsAtTarget

----------------------------------------------------------------------------
\* The start of a spawn sequence (SpecCycle).

\* The step called setInterval: the timer id the log hands out was taken.
SequenceStarted == glog'.tid # glog.tid

SequenceStartStep ==
    /\ glog'.op = "tick" =>
          (SequenceStarted <=> /\ game'.params.multiball
                               /\ ~glog.seq
                               /\ Len(balls') < maxBalls)
    /\ glog'.op # "tick" => ~SequenceStarted
    /\ SequenceStarted => (~glog.seq /\ glog'.seq)

\* C35: a frame starts a spawn sequence exactly when, in that frame, the
\* multiball parameter is true, no sequence has been started since the
\* parameter last was false, and balls.length < maxBalls; so at most one
\* sequence is started per continuous period in which the parameter stays
\* true, and nothing but a frame starts one.
C35_OneSequencePerPeriod == [][SequenceStartStep]_vars

\* A frame with multiball on and room for more balls that starts no
\* sequence, because an earlier frame of the same period did.
C35_Witness ==
    /\ glog.op = "tick"
    /\ game.params.multiball
    /\ Len(balls) < maxBalls
    /\ glog.seq
    /\ ~glog.started

----------------------------------------------------------------------------
\* The ball at index 0 (Spec).

\* Between resets the ball at index 0 stays the same ball.
FirstBallStep ==
    glog'.op # "reset" => (Len(balls') >= 1 /\ balls'[1].id = balls[1].id)

\* It respawns and is not marked for removal, and the filter of the latest
\* frame had it to keep.
FirstBallKept ==
    /\ Len(balls) >= 1
    /\ balls[1].shouldRespawn
    /\ ~balls[1].needsRemoval
    /\ glog.op = "tick" =>
         /\ Len(RemoveMarked(glog.afterLoop)) >= 1
         /\ glog.afterLoop[1].id = glog.pre[1].id
         /\ glog.afterLoop[1].shouldRespawn
         /\ ~glog.afterLoop[1].needsRemoval

\* C36: between Game.reset calls the ball at index 0 of Game.balls always has
\* shouldRespawn = true and is never removed, so the removal step of a frame
\* never leaves the collection empty.
C36_FirstBallStays == [][FirstBallStep /\ FirstBallKept']_vars

\* A frame with several balls in which the ball at index 0 crossed a side
\* boundary: it was reset and is still at index 0.
C36_Witness ==
    /\ glog.op = "tick"
    /\ Len(glog.pre) >= 2
    /\ glog.ev[1].res.scored # << >>
    /\ balls[1].id = glog.pre[1].id
    /\ balls[1].shouldRespawn

----------------------------------------------------------------------------
\* The shouldRespawn flag of a ball (SpecCycle).

\* No ball that is in Game.balls before and after the step goes from
\* non-respawning to respawning.
FlagStep ==
    \A i \in 1..Len(balls), j \in 1..Len(balls') :
        balls'[j].id = balls[i].id =>
            (balls'[j].shouldRespawn => balls[i].shouldRespawn)

\* The Ball.update calls of the latest frame in which a non-respawning ball
\* crossed a side boundary.
MarkedCrossings == { e \in Events : ~e.pre.shouldRespawn /\ Crossed(e) }

\* Each of them marked its ball for removal, and the frame's filter took it
\* out of Game.balls.
MarkedCrossingsRemoved ==
    glog.op = "tick" =>
        \A e \in MarkedCrossings :
            /\ e.res.ball.needsRemoval
            /\ e.pre.id \in glog.goneNow
            /\ e.pre.id \notin BallIds(balls)

\* C37: a ball's shouldRespawn only ever goes from true to false: a ball
\* marked non-respawning while multiball was off stays non-respawning and is
\* removed at its next scoring event, also when the multiball parameter has
\* turned true again in the meantime.
C37_FlagOnlyCleared == [][FlagStep /\ MarkedCrossingsRemoved']_vars

\* A frame with multiball on, before it and after it, in which a ball
\* marked in an earlier multiball-off period crossed a side boundary and was
\* removed.
C37_Witness ==
    /\ glog.op = "tick"
    /\ glog.preG.params.multiball
    /\ game.params.multiball
    /\ \E e \in MarkedCrossings : e.pre.id \in glog.goneNow

----------------------------------------------------------------------------
\* The ball's height at the end of Ball.update.

\* The Ball.update calls of the latest frame that ran (no score cooldown),
\* in a field at least as high as the ball.
UpdatesRun ==
    { e \in Events : ~e.res.skipped /\ FieldNow.height >= 2 * BallRadius(e) }

InsideVertically(e) ==
    /\ FieldNow.y + BallRadius(e) <= e.res.ball.y
    /\ e.res.ball.y <= FieldNow.y + FieldNow.height - BallRadius(e)

\* C38: at the end of every Ball.update call that the score cooldown does
\* not skip, the ball lies vertically inside the field,
\* field.y + r <= y <= field.y + field.height - r (r = size / 2,
\* field.height >= 2r), also when a paddle collision repositions the ball.
C38_InsideVertically == \A e \in UpdatesRun : InsideVertically(e)

----------------------------------------------------------------------------
\* The screen shake of a spawn from a paddle hit (Spec).

\* The Ball.update calls of the latest frame whose paddle hit made
\* createMultiball add a ball.
SpawningHits == { e \in Events : e.res.spawn /\ e.added }

\* C39: when a paddle hit makes createMultiball add a ball, the shake that
\* spawn set (8) is the value Game.shakeAmount holds once the source ball's
\* update has returned to the game loop.
C39_SpawnShakeKept ==
    glog.op = "tick" =>
        \A e \in SpawningHits :
            /\ e.shakeSet = 8 * Fx
            /\ e.shakeOut = e.shakeSet

============================================================================
